---- MODULE Spec2Model ----
(***************************************************************************)
(* Model of the TraderIA trading-session orchestrator:                     *)
(*   - LocalTradingMemory (local_memory_system.py): the lesson store,      *)
(*   - the MT5 command/status file channel,                                *)
(*   - ClaudeTrader decision validation (claude_trader.py),                *)
(*   - SistemaTradingCompleto / SistemaTradingClaudeAI sessions,           *)
(*     monitoring, health check and shutdown.                              *)
(*                                                                         *)
(* Abstractions (stated once, used throughout):                            *)
(*   - a calendar date "YYYY-MM-DD" is a day number; string order on ISO   *)
(*     dates is the order of the day numbers.  Timestamps are kept at day  *)
(*     granularity.                                                        *)
(*   - a lesson id f"L{n:03d}" is the pair <<"L", n>>: zero padding never  *)
(*     truncates, so the format is injective in n.                         *)
(*   - file content is a sequence of tokens; a token other than "|", " "   *)
(*     and the non-ASCII token stands for a run of ASCII characters that   *)
(*     holds no delimiter and no white space.                              *)
(*   - a price is an integer number of 1e-4 units (pips for EURUSD).       *)
(***************************************************************************)
EXTENDS Integers, Sequences, FiniteSets, TLC

VARIABLES
    memFile,             \* primary store file trading_memory.json
    backups,             \* backups/trading_memory_backup_*.json, oldest first
    today,               \* datetime.now() as a day number
    cmdFile,             \* trading_commands.txt
    statusFile,          \* trade_status.txt
    variant,             \* which orchestrator class runs
    current_trade,       \* self.current_trade
    waiting_for_setup,   \* self.waiting_for_setup
    shutdown_requested,  \* self.shutdown_requested
    is_running,          \* self.is_running
    monitors,            \* live background monitor threads (Claude variant)
    inHours,             \* is_trading_hours() would return True now
    pc,                  \* the process: "constructed", "running" or "exited"
    oracle,              \* what the decision source answers when asked next
    lastOp,              \* history: the last call and what it returned
    lastWrite,           \* history: who last wrote the command file
    obs,                 \* history: statuses seen by monitoring since dispatch
    assigned,            \* history: numbers of the ids add_lesson returned, in order
    tampered,            \* history: the primary store file was damaged or removed
    saving,              \* save_memory calls in progress and the .tmp file
    polling              \* statuses monitor threads have read and not yet acted on

vars == <<memFile, backups, today, cmdFile, statusFile, variant, current_trade,
          waiting_for_setup, shutdown_requested, is_running, monitors, inHours,
          pc, oracle, lastOp, lastWrite, obs, assigned, tampered, saving, polling>>

storeVars == <<memFile, backups>>
chanVars  == <<cmdFile, statusFile>>
orchVars  == <<variant, current_trade, waiting_for_setup, shutdown_requested,
               is_running, monitors, inHours, pc, oracle>>
histVars  == <<lastWrite, obs, assigned, tampered>>

(***************************************************************************)
(* Bounds of the model                                                     *)
(***************************************************************************)
MaxAdds == 2        \* lessons added on top of the seed in one behaviour
MaxDays == 1        \* day changes in one behaviour
MaxConstruct == 2   \* LocalTradingMemory constructions in one behaviour
MaxLen == 6         \* tokens in a status file content drawn at Init
MaxThreads == 2     \* live monitor threads
MaxLessons == 1     \* lessons written by trade monitoring

(***************************************************************************)
(* Program constants                                                       *)
(***************************************************************************)
SeedCount == 6      \* "last_lesson_id": 6
FirstDay == SeedCount + 1   \* a day after the newest seed date 2024-12-20
KeepCount == 10     \* _cleanup_old_backups(keep_count=10)
MinFields == 6      \* len(parts) < 6
MaxAttempts == 3    \* max_attempts = 3
PostTradeRelevance == 4 \* relevance=4 in generate_post_trade_lesson

None == "None"

(***************************************************************************)
(* Lesson store: local_memory_system.py                                    *)
(***************************************************************************)
FormatId(n) == <<"L", n>>

\* str.upper() on the pair symbols used here
Upper(s) == IF s = "eurusd" THEN "EURUSD" ELSE s

\* str.strip() on the texts used here
StripText(s) == IF s \in {" ", "  "} THEN "" ELSE IF s = " ctx " THEN "ctx" ELSE s

SeedRelevance == <<5, 4, 5, 4, 5, 5>>
SeedType == <<"Estructura", "Timing", "Setup Completo", "Risk Management",
              "Zona Rota", "Sistema">>
SeedResult == <<"WAIT", "WAIT", "+22 pips", "BE (podria haber sido +30)",
                "WAIT", "No Loss">>
SeedTags == << <<"estructura", "h4", "lateral">>,
               <<"timing", "resistencia", "entry">>,
               <<"cascada", "order_block", "win">>,
               <<"risk_management", "sl", "be">>,
               <<"order_block", "zona_rota", "discipline">>,
               <<"memoria", "sistema", "avoided_loss">> >>

initial_lessons ==
    [i \in 1..SeedCount |->
        [id |-> FormatId(i), date |-> i, pair |-> "EURUSD", type |-> SeedType[i],
         context |-> "seed context", rule |-> "seed rule",
         result |-> SeedResult[i], relevance |-> SeedRelevance[i],
         tags |-> SeedTags[i], created |-> 0, updated |-> 0]]

\* File contents.  kind: "absent" (no file), "garbage" (not JSON),
\* "nondict" (JSON whose top level is not an object), "store" (a dict with
\* lessons, last_lesson_id and metadata).
FileOf(k, ls, last, total, upd) ==
    [kind |-> k, lessons |-> ls, last_lesson_id |-> last,
     total_lessons |-> total, last_updated |-> upd]

Absent  == FileOf("absent", <<>>, 0, 0, 0)
Garbage == FileOf("garbage", <<>>, 0, 0, 0)
NonDict == FileOf("nondict", <<>>, 0, 0, 0)
\* {"lessons": [], "last_lesson_id": 0, "metadata": {}}: the empty metadata
\* carries no count until save_memory fills it in
EmptyStore == FileOf("store", <<>>, 0, 0, 0)

initial_data == FileOf("store", initial_lessons, SeedCount, SeedCount, 0)

SavedForm_stale_count(data, now) ==
    IF data.kind = "store" THEN [data EXCEPT !.last_updated = now] ELSE data

\* save_memory: what the primary file holds after a successful save of data
SavedForm(data, now) ==
    IF data.kind = "store"
    THEN [data EXCEPT !.total_lessons = Len(data.lessons), !.last_updated = now]
    ELSE data

save_memory_in_place(file, data, now, ok) ==
    IF ok THEN [file |-> SavedForm(data, now), raised |-> FALSE]
    ELSE [file |-> Garbage, raised |-> TRUE]

\* save_memory(memory_data); ok = the write and the rename succeed.
\* Returns the primary file afterwards and whether the call raised.
save_memory(file, data, now, ok) ==
    IF ok THEN [file |-> SavedForm(data, now), raised |-> FALSE]
    ELSE [file |-> file, raised |-> TRUE]

\* _restore_from_backup
restore_from_backup(file, bks, now, ok) ==
    IF bks = <<>> THEN [data |-> EmptyStore, file |-> file, raised |-> FALSE]
    ELSE LET latest_backup == bks[Len(bks)] IN
         IF latest_backup.kind = "garbage"
         THEN [data |-> EmptyStore, file |-> file, raised |-> FALSE]
         ELSE LET s == save_memory(file, latest_backup, now, ok) IN
              IF s.raised THEN [data |-> EmptyStore, file |-> file, raised |-> FALSE]
              ELSE [data |-> SavedForm(latest_backup, now), file |-> s.file,
                    raised |-> FALSE]

\* load_memory: the value returned (data), the primary file afterwards and
\* whether the call raised (the re-seeding save can raise).
load_memory(file, bks, now, ok) ==
    CASE file.kind = "store"   -> [data |-> file, file |-> file, raised |-> FALSE]
      [] file.kind = "absent"  ->
            LET s == save_memory(file, initial_data, now, ok) IN
            IF s.raised THEN [data |-> EmptyStore, file |-> file, raised |-> TRUE]
            ELSE [data |-> s.file, file |-> s.file, raised |-> FALSE]
      [] file.kind = "garbage" -> restore_from_backup(file, bks, now, ok)
      [] OTHER                 -> [data |-> EmptyStore, file |-> file, raised |-> FALSE]

RECURSIVE FilterSeq(_, _)
FilterSeq(s, keep) ==
    IF s = <<>> THEN <<>>
    ELSE IF keep[1] THEN <<s[1]>> \o FilterSeq(Tail(s), Tail(keep))
         ELSE FilterSeq(Tail(s), Tail(keep))

\* list.sort(key=date, reverse=True): stable, so lessons of equal date keep
\* their relative order in the list.
RECURSIVE InsertByDateDesc(_, _)
InsertByDateDesc(sorted, x) ==
    IF sorted = <<>> THEN <<x>>
    ELSE IF sorted[1].date >= x.date
         THEN <<sorted[1]>> \o InsertByDateDesc(Tail(sorted), x)
         ELSE <<x>> \o sorted

RECURSIVE SortByDateDesc(_)
SortByDateDesc(s) ==
    IF s = <<>> THEN <<>>
    ELSE InsertByDateDesc(SortByDateDesc(SubSeq(s, 1, Len(s) - 1)), s[Len(s)])

Take(s, n) == SubSeq(s, 1, IF n < Len(s) THEN n ELSE Len(s))

\* the filter-sort-truncate part of get_recent_lessons (no type or tag filter)
recent_lessons(lessons, limit, min_relevance) ==
    Take(SortByDateDesc(
            FilterSeq(lessons,
                      [i \in 1..Len(lessons) |-> lessons[i].relevance >= min_relevance])),
         limit)

IdsOf(lessons) == {lessons[i].id : i \in 1..Len(lessons)}

\* What a call reports: op, the outcome ret ("ok", "true", "false" or the
\* name of the exception raised), the lesson id and relevance involved, the
\* ids of the lessons a query returned, the limit of a query, and io: the
\* disk accepted every write of the call.
Call(op, ret, id, rel, out, limit, io) ==
    [op |-> op, ret |-> ret, id |-> id, rel |-> rel, out |-> out,
     limit |-> limit, io |-> io]

NoId == FormatId(0)

\* get_recent_lessons(limit, min_relevance)
get_recent_lessons(file, bks, limit, min_relevance, now, ok) ==
    LET l == load_memory(file, bks, now, ok) IN
    IF l.raised THEN [file |-> l.file, ret |-> "IOError", out |-> <<>>]
    ELSE IF l.data.kind # "store"
         THEN [file |-> l.file, ret |-> "AttributeError", out |-> <<>>]
         ELSE [file |-> l.file, ret |-> "ok",
               out |-> recent_lessons(l.data.lessons, limit, min_relevance)]

\* the filter loop of get_recent_lessons: lesson_type and tags filter only
\* when they are truthy ("" and the empty list do not filter)
filtered_lessons(lessons, min_relevance, lesson_type, tags) ==
    FilterSeq(lessons,
              [i \in 1..Len(lessons) |->
                  /\ lessons[i].relevance >= min_relevance
                  /\ lesson_type # "" => lessons[i].type = lesson_type
                  /\ tags # <<>> =>
                        \E t \in 1..Len(tags), u \in 1..Len(lessons[i].tags) :
                            tags[t] = lessons[i].tags[u]])

\* get_recent_lessons(limit, min_relevance, lesson_type, tags)
get_recent_lessons_with(file, bks, limit, min_relevance, lesson_type, tags, now, ok) ==
    LET l == load_memory(file, bks, now, ok) IN
    IF l.raised THEN [file |-> l.file, ret |-> "IOError", out |-> <<>>]
    ELSE IF l.data.kind # "store"
         THEN [file |-> l.file, ret |-> "AttributeError", out |-> <<>>]
         ELSE [file |-> l.file, ret |-> "ok",
               out |-> Take(SortByDateDesc(
                               filtered_lessons(l.data.lessons, min_relevance,
                                                lesson_type, tags)),
                            limit)]

next_lesson_number_count(data) == Len(data.lessons) + 1

\* last_id = memory.get("last_lesson_id", 0); new_id = f"L{last_id + 1:03d}"
next_lesson_number(data) == data.last_lesson_id + 1

add_lesson_required_pair_only(file, bks, inp, now, ok) ==
    IF inp.pair = ""
    THEN [file |-> file, ret |-> "ValueError", n |-> 0]
    ELSE
    LET l == load_memory(file, bks, now, ok) IN
    IF l.raised THEN [file |-> l.file, ret |-> "IOError", n |-> 0]
    ELSE IF l.data.kind # "store"
    THEN [file |-> l.file, ret |-> "AttributeError", n |-> 0]
    ELSE
    LET new_n == next_lesson_number(l.data)
        new_lesson == [id |-> FormatId(new_n), date |-> now,
                       pair |-> Upper(inp.pair), type |-> inp.type,
                       context |-> StripText(inp.context),
                       rule |-> StripText(inp.rule), result |-> inp.result,
                       relevance |-> inp.relevance, tags |-> inp.tags,
                       created |-> now, updated |-> 0]
        memory == [l.data EXCEPT !.lessons = Append(@, new_lesson),
                                 !.last_lesson_id = new_n]
        s == save_memory(l.file, memory, now, ok)
    IN IF s.raised THEN [file |-> s.file, ret |-> "IOError", n |-> 0]
       ELSE [file |-> s.file, ret |-> "ok", n |-> new_n]

\* add_lesson(pair, lesson_type, context, rule, result, relevance, tags)
add_lesson(file, bks, inp, now, ok) ==
    IF "" \in {inp.pair, inp.type, inp.context, inp.rule, inp.result}
    THEN [file |-> file, ret |-> "ValueError", n |-> 0]
    ELSE IF ~(1 <= inp.relevance /\ inp.relevance <= 5)
    THEN [file |-> file, ret |-> "ValueError", n |-> 0]
    ELSE
    LET l == load_memory(file, bks, now, ok) IN
    IF l.raised THEN [file |-> l.file, ret |-> "IOError", n |-> 0]
    ELSE IF l.data.kind # "store"
    THEN [file |-> l.file, ret |-> "AttributeError", n |-> 0]
    ELSE
    LET new_n == next_lesson_number(l.data)
        new_lesson == [id |-> FormatId(new_n), date |-> now,
                       pair |-> Upper(inp.pair), type |-> inp.type,
                       context |-> StripText(inp.context),
                       rule |-> StripText(inp.rule), result |-> inp.result,
                       relevance |-> inp.relevance, tags |-> inp.tags,
                       created |-> now, updated |-> 0]
        memory == [l.data EXCEPT !.lessons = Append(@, new_lesson),
                                 !.last_lesson_id = new_n]
        s == save_memory(l.file, memory, now, ok)
    IN IF s.raised THEN [file |-> s.file, ret |-> "IOError", n |-> 0]
       ELSE [file |-> s.file, ret |-> "ok", n |-> new_n]

FirstIndexOf_any(lessons, lesson_id) ==
    IF lessons = <<>> THEN 0
    ELSE IF lesson_id \in IdsOf(lessons)
         THEN CHOOSE i \in 1..Len(lessons) : lessons[i].id = lesson_id
         ELSE Len(lessons)

\* for lesson in lessons: if lesson.get("id") == lesson_id: the index of the
\* first lesson with this id, 0 if there is none
FirstIndexOf(lessons, lesson_id) ==
    IF lesson_id \in IdsOf(lessons)
    THEN CHOOSE i \in 1..Len(lessons) :
            /\ lessons[i].id = lesson_id
            /\ \A j \in 1..(i - 1) : lessons[j].id # lesson_id
    ELSE 0

ApplyUpdates_any_key(lesson, upd, now) ==
    [lesson EXCEPT
        !.relevance = IF "relevance" \in upd.has THEN upd.relevance ELSE @,
        !.context   = IF "context" \in upd.has THEN upd.context ELSE @,
        !.id        = IF "id" \in upd.has THEN upd.id ELSE @,
        !.updated   = now]

\* the loop body of update_lesson: only keys in allowed_updates are applied
ApplyUpdates(lesson, upd, now) ==
    [lesson EXCEPT
        !.relevance = IF "relevance" \in upd.has THEN upd.relevance ELSE @,
        !.context   = IF "context" \in upd.has THEN upd.context ELSE @,
        !.updated   = now]

\* update_lesson(lesson_id, **updates)
update_lesson(file, bks, lesson_id, upd, now, ok) ==
    LET l == load_memory(file, bks, now, ok) IN
    IF l.raised THEN [file |-> l.file, ret |-> "IOError"]
    ELSE IF l.data.kind # "store" THEN [file |-> l.file, ret |-> "AttributeError"]
    ELSE
    LET i == FirstIndexOf(l.data.lessons, lesson_id) IN
    IF i = 0 THEN [file |-> l.file, ret |-> "false"]
    ELSE LET memory == [l.data EXCEPT !.lessons[i] = ApplyUpdates(@, upd, now)]
             s == save_memory(l.file, memory, now, ok)
         IN IF s.raised THEN [file |-> s.file, ret |-> "IOError"]
            ELSE [file |-> s.file, ret |-> "true"]

\* delete_lesson(lesson_id)
delete_lesson(file, bks, lesson_id, now, ok) ==
    LET l == load_memory(file, bks, now, ok) IN
    IF l.raised THEN [file |-> l.file, ret |-> "IOError"]
    ELSE IF l.data.kind # "store" THEN [file |-> l.file, ret |-> "AttributeError"]
    ELSE
    LET lessons == l.data.lessons
        kept == FilterSeq(lessons, [i \in 1..Len(lessons) |-> lessons[i].id # lesson_id])
    IN IF Len(kept) < Len(lessons)
       THEN LET s == save_memory(l.file, [l.data EXCEPT !.lessons = kept], now, ok)
            IN IF s.raised THEN [file |-> s.file, ret |-> "IOError"]
               ELSE [file |-> s.file, ret |-> "true"]
       ELSE [file |-> l.file, ret |-> "false"]

\* _cleanup_old_backups: the keep_count newest backups are kept
cleanup_old_backups(bks) ==
    IF Len(bks) > KeepCount THEN SubSeq(bks, Len(bks) - KeepCount + 1, Len(bks))
    ELSE bks

\* _create_backup: copies the primary file whatever it holds
create_backup(file, bks) ==
    IF file.kind = "absent" THEN bks ELSE cleanup_old_backups(Append(bks, file))

(***************************************************************************)
(* MT5 channel: trading_commands.txt and trade_status.txt                  *)
(***************************************************************************)
NoFile == [exists |-> FALSE, content |-> <<>>]
File(content) == [exists |-> TRUE, content |-> content]

Commands == {"1", "2", "3", "4"}

\* command_names = {'1': 'WAIT', '2': 'LONG', '3': 'SHORT', '4': 'CLOSE'}
command_names(c) ==
    CASE c = "1" -> "WAIT" [] c = "2" -> "LONG" [] c = "3" -> "SHORT"
      [] c = "4" -> "CLOSE" [] OTHER -> c

send_command_append(file, command, ok) ==
    IF command \notin Commands THEN [file |-> file, ret |-> FALSE]
    ELSE IF ~ok THEN [file |-> file, ret |-> FALSE]
    ELSE [file |-> File(file.content \o <<command>>), ret |-> TRUE]

\* send_command_to_mt5(command); ok = open and write succeed.  open(.., 'w')
\* creates the file when it is missing and truncates it otherwise.
send_command_to_mt5(file, command, ok) ==
    IF command \notin Commands THEN [file |-> file, ret |-> FALSE]
    ELSE IF ~ok THEN [file |-> file, ret |-> FALSE]
    ELSE [file |-> File(<<command>>), ret |-> TRUE]

\* The same function with the place of the I/O failure told apart: io is
\* "none", "open" (open(.., 'w') raises, the file is as before) or "write"
\* (the file was truncated, write or flush raises).  Both orchestrators have
\* this code.
SendFailures == {"none", "open", "write"}

valid_command_any(command) == TRUE

\* if command not in ['1', '2', '3', '4']
valid_command(command) == command \in Commands

write_command_append(file, command, io) ==
    CASE io = "open"  -> [file |-> file, ret |-> FALSE]
      [] io = "write" -> [file |-> File(<<>>), ret |-> FALSE]
      [] OTHER        -> [file |-> File(file.content \o <<command>>), ret |-> TRUE]

\* with open(self.mt5_commands_file, 'w', encoding='ascii') as f:
\*     f.write(command); f.flush()      and the two except clauses
write_command(file, command, io) ==
    CASE io = "open"  -> [file |-> file, ret |-> FALSE]
      [] io = "write" -> [file |-> File(<<>>), ret |-> FALSE]
      [] OTHER        -> [file |-> File(<<command>>), ret |-> TRUE]

send_command(file, command, io) ==
    IF ~valid_command(command) THEN [file |-> file, ret |-> FALSE]
    ELSE write_command(file, command, io)

\* Bytes of a file as tokens.  "e-acute" is the UTF-8 sequence of U+00E9;
\* "0x81" and "0xA0" are single bytes >= 128.  latin1 and cp1252 decode 0xA0
\* to U+00A0, which str.strip() removes as white space.
WhiteSpace == {" ", "0xA0"}
NonAscii == {"e-acute", "0x81", "0xA0"}

RECURSIVE StripLeft(_)
StripLeft(c) ==
    IF c # <<>> /\ c[1] \in WhiteSpace THEN StripLeft(Tail(c)) ELSE c

RECURSIVE StripRight(_)
StripRight(c) ==
    IF c # <<>> /\ c[Len(c)] \in WhiteSpace
    THEN StripRight(SubSeq(c, 1, Len(c) - 1)) ELSE c

Strip_none(c) == c

\* str.strip()
Strip(c) == StripRight(StripLeft(c))

\* open(file, 'r', encoding=enc).read(): ascii rejects every byte >= 128;
\* utf-8 rejects the lone bytes 0x81 and 0xA0; cp1252 rejects 0x81; latin1
\* decodes anything.  Decoded text keeps its non-ASCII characters.
Decodes(enc, bytes) ==
    CASE enc = "ascii"  -> \A i \in 1..Len(bytes) : bytes[i] \notin NonAscii
      [] enc = "utf-8"  -> \A i \in 1..Len(bytes) : bytes[i] \notin {"0x81", "0xA0"}
      [] enc = "latin1" -> TRUE
      [] OTHER          -> \A i \in 1..Len(bytes) : bytes[i] # "0x81"

encodings_to_try == <<"ascii", "utf-8", "latin1", "cp1252">>

IsReadable_nonempty(content) == content # <<>>

\* if content and all(ord(c) < 128 for c in content)
IsReadable(content) ==
    content # <<>> /\ \A i \in 1..Len(content) : content[i] \notin NonAscii

\* the loop over the encodings: the stripped text of the first encoding
\* that decodes to readable content, <<>> when there is none
RECURSIVE FirstReadable(_, _)
FirstReadable(encs, bytes) ==
    IF encs = <<>> THEN <<>>
    ELSE IF Decodes(encs[1], bytes) /\ IsReadable(Strip(bytes)) THEN Strip(bytes)
         ELSE FirstReadable(Tail(encs), bytes)

\* str.split('|'): the fields, each a sequence of tokens
RECURSIVE Split(_)
Split(c) ==
    IF \A i \in 1..Len(c) : c[i] # "|" THEN <<c>>
    ELSE LET k == CHOOSE i \in 1..Len(c) :
                     c[i] = "|" /\ \A j \in 1..(i - 1) : c[j] # "|"
         IN <<SubSeq(c, 1, k - 1)>> \o Split(SubSeq(c, k + 1, Len(c)))

\* the text of a field: a lone token is its text; a field of several tokens
\* is text that equals no status word
FieldText(f) ==
    IF f = <<>> THEN "" ELSE IF Len(f) = 1 THEN f[1] ELSE "(text)"

DigitTokens == {"0", "1001", "20250709", "20250710"}

\* str.isdigit()
IsDigit(f) == Len(f) = 1 /\ f[1] \in DigitTokens

\* int() of a digit token.  Only ticket numbers are converted.
IntOf(t) == IF t = "1001" THEN 1001 ELSE 0

\* float() of a token, in 1e-4 units; -1 stands for ValueError
FloatOf(t) ==
    CASE t = "1.0950" -> 10950 [] t = "1.0900" -> 10900 [] t = "1.1000" -> 11000
      [] t = "0" -> 0 [] t = "1001" -> 10010000 [] OTHER -> -1

\* _safe_float_parse(value): float() ignores surrounding white space
safe_float_parse(f) ==
    IF f = <<>> \/ f = <<"0">> THEN 0
    ELSE LET v == Strip(f) IN
         IF Len(v) = 1 /\ FloatOf(v[1]) >= 0 THEN FloatOf(v[1]) ELSE 0

StatusData(status, ticket, entry, sl, tp, is_active, direction) ==
    [status |-> status, ticket |-> ticket, entry |-> entry, sl |-> sl, tp |-> tp,
     is_active |-> is_active, direction |-> direction]

Sentinel(status) == StatusData(status, 0, 0, 0, 0, FALSE, None)

\* 'LONG' in status / 'SHORT' in status, on the status words used here
Contains(status, word) ==
    \/ word = "LONG" /\ status = "LONG_ACTIVE"
    \/ word = "SHORT" /\ status = "SHORT_ACTIVE"

\* the derived direction: SistemaTradingCompleto derives it for the two
\* active statuses only, SistemaTradingClaudeAI from the status text
derived_direction(v, status) ==
    IF v = "completo"
    THEN IF status \in {"LONG_ACTIVE", "SHORT_ACTIVE"}
         THEN (IF Contains(status, "LONG") THEN "LONG" ELSE "SHORT")
         ELSE None
    ELSE IF Contains(status, "LONG") THEN "LONG"
         ELSE IF Contains(status, "SHORT") THEN "SHORT" ELSE None

\* read_mt5_status of the variant v
read_mt5_status(v, file) ==
    IF ~file.exists THEN Sentinel("FILE_NOT_FOUND")
    ELSE LET status_line == FirstReadable(encodings_to_try, file.content) IN
         IF status_line = <<>> THEN Sentinel("UNREADABLE")
         ELSE LET parts == Split(status_line) IN
              IF Len(parts) < MinFields THEN Sentinel("PARSE_ERROR")
              ELSE LET status == FieldText(parts[1]) IN
                   StatusData(status,
                              IF IsDigit(parts[2]) THEN IntOf(parts[2][1]) ELSE 0,
                              safe_float_parse(parts[3]),
                              safe_float_parse(parts[4]),
                              safe_float_parse(parts[5]),
                              status \in {"LONG_ACTIVE", "SHORT_ACTIVE"},
                              derived_direction(v, status))

\* parts[0], the characters of status_data['status']; <<>> when the call
\* returns a sentinel
status_field(file) ==
    IF ~file.exists THEN <<>>
    ELSE LET status_line == FirstReadable(encodings_to_try, file.content) IN
         IF status_line = <<>> THEN <<>>
         ELSE LET parts == Split(status_line) IN
              IF Len(parts) < MinFields THEN <<>> ELSE parts[1]

\* "STATUS|TICKET|ENTRY|SL|TP|TIMESTAMP|MESSAGE" as tokens
Line(status, ticket, entry, sl, tp, timestamp, message) ==
    <<status, "|", ticket, "|", entry, "|", sl, "|", tp, "|", timestamp, "|">>
        \o message

\* default_status = "WAITING|0|0|0|0|20250709|System starting"
default_status(v) ==
    Line("WAITING", "0", "0", "0", "0",
         IF v = "completo" THEN "20250709" ELSE "20250710",
         <<"System", " ", "starting">>)

(***************************************************************************)
(* Decision sources: claude_trader.py and manual_analysis_prompt           *)
(***************************************************************************)
\* A decision value of the JSON answer: a string or a number
Str(v) == [t |-> "str", v |-> v]
Num(v) == [t |-> "num", v |-> v]

\* A confidence value of the JSON answer, in tenths: a number, the string
\* of a number, a string that is no number, or null
Conf(t, tenths) == [t |-> t, tenths |-> tenths]

\* The answer of the API call: kind "api_error" (the call raised),
\* "not_json" (text json.loads rejects), "json" (a JSON value of the given
\* shape; for a dict, the fields it has and their values)
Response(kind, shape, has, decision, confidence) ==
    [kind |-> kind, shape |-> shape, has |-> has, decision |-> decision,
     confidence |-> confidence]

\* float/int truncation toward zero of a value given in tenths
Trunc(tenths) == IF tenths >= 0 THEN tenths \div 10 ELSE -((-tenths) \div 10)

\* int(decision_data["confidence"]): a number is truncated, the string of a
\* whole number is parsed, anything else raises ValueError or TypeError
int(c) ==
    CASE c.t = "num" -> [ok |-> TRUE, v |-> Trunc(c.tenths)]
      [] c.t = "numstr" /\ c.tenths % 10 = 0 -> [ok |-> TRUE, v |-> c.tenths \div 10]
      [] OTHER -> [ok |-> FALSE, v |-> 0]

\* _validate_decision; a value that is no dict fails the membership tests or
\* raises TypeError, which analyze_market turns into the fallback too
validate_decision(d) ==
    /\ d.shape = "dict"
    /\ {"decision", "reasoning", "confidence"} \subseteq d.has
    /\ d.decision \in {Str("1"), Str("2"), Str("3"), Str("4")}
    /\ LET confidence == int(d.confidence) IN
       confidence.ok /\ 1 <= confidence.v /\ confidence.v <= 10

\* _fallback_decision: "decision": "1", "source": "fallback"
fallback_decision == [decision |-> "1", source |-> "fallback"]

Timeframes == {"H4", "H1", "M15"}

\* analyze_market(screenshots, memory_context); encodable = the screenshot
\* files encode_image can read
analyze_market(screenshots, encodable, r) ==
    IF (screenshots \cap Timeframes) \cap encodable = {} THEN fallback_decision
    ELSE IF r.kind = "api_error" THEN fallback_decision
    ELSE IF r.kind = "not_json" THEN fallback_decision
    ELSE IF ~validate_decision(r) THEN fallback_decision
    ELSE [decision |-> r.decision.v, source |-> "claude"]

\* input().strip() on the console lines used here
StripInput(line) == IF line = " 3 " THEN "3" ELSE line

\* manual_analysis_prompt: the console events are lines typed, "INT"
\* (KeyboardInterrupt) or "EOF" (another exception of input()).
RECURSIVE prompt_loop(_, _)
prompt_loop(events, attempt) ==
    IF attempt >= MaxAttempts THEN "1"
    ELSE IF events[1] = "INT" THEN "1"
    ELSE IF events[1] = "EOF" THEN prompt_loop(Tail(events), attempt + 1)
    ELSE IF StripInput(events[1]) \in Commands THEN StripInput(events[1])
    ELSE prompt_loop(Tail(events), attempt + 1)

manual_analysis_prompt(events) == prompt_loop(events, 0)

(***************************************************************************)
(* Post-trade lessons                                                      *)
(***************************************************************************)
\* f"{pips:.1f}" for the pip values the status lines used here produce
NumText(pips) ==
    CASE pips = 50 -> "50.0" [] pips = -50 -> "-50.0" [] pips = 100 -> "100.0"
      [] pips = -100 -> "-100.0" [] pips = 0 -> "0.0" [] OTHER -> "(number)"

\* f"+{pips:.1f} pips"
FormatPlusPips(pips) ==
    CASE NumText(pips) = "50.0" -> "+50.0 pips"
      [] NumText(pips) = "-50.0" -> "+-50.0 pips"
      [] NumText(pips) = "100.0" -> "+100.0 pips"
      [] NumText(pips) = "-100.0" -> "+-100.0 pips"
      [] NumText(pips) = "0.0" -> "+0.0 pips"
      [] OTHER -> "+(number) pips"

\* f"{pips:.1f} pips"
FormatPips(pips) ==
    CASE NumText(pips) = "50.0" -> "50.0 pips"
      [] NumText(pips) = "-50.0" -> "-50.0 pips"
      [] NumText(pips) = "100.0" -> "100.0 pips"
      [] NumText(pips) = "-100.0" -> "-100.0 pips"
      [] NumText(pips) = "0.0" -> "0.0 pips"
      [] OTHER -> "(number) pips"

\* _calculate_pips_result, and the same computation inlined in
\* SistemaTradingCompleto.generate_post_trade_lesson; prices in 1e-4 units,
\* so (a - b) * 10000 is the difference of the units
calculate_pips_result(trade_data) ==
    IF trade_data.entry <= 0 THEN "N/A"
    ELSE IF trade_data.status = "TP_HIT" /\ trade_data.tp > 0
         THEN IF trade_data.direction = "LONG"
              THEN FormatPlusPips(trade_data.tp - trade_data.entry)
              ELSE FormatPlusPips(trade_data.entry - trade_data.tp)
    ELSE IF trade_data.status = "SL_HIT" /\ trade_data.sl > 0
         THEN IF trade_data.direction = "LONG"
              THEN FormatPips(trade_data.sl - trade_data.entry)
              ELSE FormatPips(trade_data.entry - trade_data.sl)
    ELSE "N/A"

\* str.lower() of a direction
Lower(d) == IF d = "LONG" THEN "long" ELSE IF d = "SHORT" THEN "short" ELSE d

\* auto_tags of generate_post_trade_lesson
auto_tags(v, trade_result) ==
    (IF trade_result.direction # None THEN <<Lower(trade_result.direction)>> ELSE <<>>)
    \o (IF trade_result.status = "TP_HIT" THEN <<"win">>
        ELSE IF trade_result.status = "SL_HIT" THEN <<"loss">> ELSE <<>>)
    \o (IF v = "completo" THEN <<"post_trade">>
        ELSE <<"post_trade", "claude_decision">>)

\* the arguments generate_post_trade_lesson passes to add_lesson; human is
\* what the operator types for context and rule (SistemaTradingCompleto),
\* whose typed relevance is taken to be the Claude variant's fixed one
post_trade_lesson(v, trade_result, human) ==
    [pair |-> "EURUSD",
     type |-> IF v = "completo" THEN "Post-Trade" ELSE "Post-Trade Claude",
     context |-> IF v = "completo" THEN human ELSE "trade context",
     rule |-> IF v = "completo" THEN human ELSE "trade rule",
     result |-> calculate_pips_result(trade_result),
     relevance |-> PostTradeRelevance,
     tags |-> auto_tags(v, trade_result)]

TerminalStatuses_with_waiting ==
    {"TP_HIT", "SL_HIT", "CLOSED", "MANUAL_CLOSE", "WAITING"}

TerminalStatuses == {"TP_HIT", "SL_HIT", "CLOSED", "MANUAL_CLOSE"}

(***************************************************************************)
(* Orchestrator: complete_trading_system.py, trading_system_calude_ai.py   *)
(***************************************************************************)
Variants == {"completo", "claude"}

Written(by, cmd, shots, valid) ==
    [by |-> by, cmd |-> cmd, shots |-> shots, valid |-> valid]

Observed(cmd, active) == [cmd |-> cmd, active |-> active]

\* take_screenshots(): None, or the validated screenshots by timeframe
Capture(none, shots) == [none |-> none, shots |-> shots]
CaptureResults ==
    {Capture(TRUE, {}), Capture(FALSE, {}), Capture(FALSE, Timeframes)}

\* the decision source's answer: the API response (Claude variant) or the
\* console events of the prompt (manual variant)
Answer(response, console) == [response |-> response, console |-> console]

ApiError == Response("api_error", "null", {}, Str(""), Conf("null", 0))
Decided(d, tenths) ==
    Response("json", "dict", {"decision", "reasoning", "confidence"}, Str(d),
             Conf("num", tenths))

\* _check_mt5_files: os.access is the input writable
check_mt5_files(cmd, status, writable) == cmd.exists /\ status.exists /\ writable

\* _validate_mt5_files: writes "1", reads it back, then clears the file
validate_mt5_files(cmd) == File(<<>>)

ensure_files_status_only(v, cmd, status, ok) ==
    IF ~ok THEN [cmd |-> cmd, status |-> status, raised |-> TRUE]
    ELSE [cmd |-> cmd,
          status |-> IF status.exists THEN status ELSE File(default_status(v)),
          raised |-> FALSE]

\* ensure_mt5_files_exist / ensure_all_files_exist; ok = the writes succeed.
\* The manual variant validates afterwards, which rewrites the command file.
ensure_files(v, cmd, status, ok) ==
    IF ~ok THEN [cmd |-> cmd, status |-> status, raised |-> TRUE]
    ELSE LET c == IF cmd.exists THEN cmd ELSE File(<<>>)
             st == IF status.exists THEN status ELSE File(default_status(v))
         IN [cmd |-> IF v = "completo" THEN validate_mt5_files(c) ELSE c,
             status |-> st, raised |-> FALSE]

\* the current_trade after _process_trading_decision / execute_trading_decision
\* sent the command
trade_after_wait_clears(trade, decision) ==
    IF decision \in {"2", "3"} THEN command_names(decision) ELSE None

trade_after(trade, decision) ==
    IF decision \in {"2", "3"} THEN command_names(decision)
    ELSE IF decision = "4" THEN None ELSE trade

session_aborts(cap) == cap.none

\* if not screenshots: return
session_aborts_on(cap) == cap.none \/ cap.shots = {}

\* daily_trading_session of SistemaTradingClaudeAI
ClaudeSession(cap, encodable, ok) ==
    /\ variant = "claude"
    /\ pc = "running" /\ ~shutdown_requested
    /\ IF session_aborts_on(cap)
       THEN /\ lastOp' = Call("session", "no_screenshots", NoId, 0, <<>>, 0, TRUE)
            /\ UNCHANGED <<polling, saving, storeVars, today, chanVars, orchVars, histVars>>
       ELSE LET m == get_recent_lessons(memFile, backups, 10, 4, today, ok)
                d == analyze_market(cap.shots, encodable, oracle.response)
                s == send_command_to_mt5(cmdFile, d.decision, ok)
                started == s.ret /\ d.decision \in {"2", "3"}
            IN /\ started => monitors < MaxThreads
               /\ memFile' = m.file
               /\ cmdFile' = s.file
               /\ current_trade' = IF s.ret THEN trade_after(current_trade, d.decision)
                                    ELSE current_trade
               /\ monitors' = IF started THEN monitors + 1 ELSE monitors
               /\ lastWrite' = IF s.ret
                               THEN Written("session", d.decision, cap.shots # {},
                                            d.source = "claude")
                               ELSE lastWrite
               /\ obs' = IF started THEN Observed(d.decision, FALSE) ELSE obs
               /\ lastOp' = Call("session", IF s.ret THEN "sent" ELSE "send_failed",
                                 NoId, 0, <<d.decision>>, 0, TRUE)
               /\ UNCHANGED <<polling, saving, backups, today, statusFile, variant, waiting_for_setup,
                              shutdown_requested, is_running, inHours, pc, oracle,
                              assigned, tampered>>

\* daily_trading_session of SistemaTradingCompleto; writable = os.access on
\* the command file and the screenshot directory
ManualSession(cap, writable, ok) ==
    /\ variant = "completo"
    /\ pc = "running" /\ ~shutdown_requested
    /\ LET m == get_recent_lessons(memFile, backups, 1, 4, today, ok)
           checks == /\ check_mt5_files(cmdFile, statusFile, writable)
                     /\ m.ret = "ok"
       IN IF ~checks
          THEN /\ memFile' = m.file
               /\ lastOp' = Call("session", "precheck_failed", NoId, 0, <<>>, 0, TRUE)
               /\ UNCHANGED <<polling, saving, backups, today, chanVars, orchVars, histVars>>
          ELSE IF session_aborts_on(cap)
          THEN /\ memFile' = m.file
               /\ lastOp' = Call("session", "no_screenshots", NoId, 0, <<>>, 0, TRUE)
               /\ UNCHANGED <<polling, saving, backups, today, chanVars, orchVars, histVars>>
          ELSE LET decision == manual_analysis_prompt(oracle.console)
                   s == send_command_to_mt5(cmdFile, decision, ok)
               IN /\ memFile' = m.file
                  /\ cmdFile' = s.file
                  /\ current_trade' = IF s.ret THEN trade_after(current_trade, decision)
                                       ELSE current_trade
                  /\ lastWrite' = IF s.ret
                                  THEN Written("session", decision, cap.shots # {},
                                               decision \in Commands)
                                  ELSE lastWrite
                  /\ obs' = IF s.ret /\ decision \in {"2", "3"}
                            THEN Observed(decision, FALSE) ELSE obs
                  /\ lastOp' = Call("session", IF s.ret THEN "sent" ELSE "send_failed",
                                    NoId, 0, <<decision>>, 0, TRUE)
                  /\ UNCHANGED <<polling, saving, backups, today, statusFile, variant,
                                 waiting_for_setup, shutdown_requested, is_running,
                                 monitors, inHours, pc, oracle, assigned, tampered>>

\* monitor_trade / monitor_active_trade: one poll of the status file.
\* cap = the post-trade capture, human = what the operator types for the
\* lesson ("INT" = KeyboardInterrupt); both are used by the manual variant.
\* Returns whether the trade closed, the store file, the add_lesson outcome
\* and the status read.
monitor_poll(v, cap, human, ok) ==
    LET status == read_mt5_status(v, statusFile) IN
    IF status.status \in TerminalStatuses
    THEN LET skip == v = "completo" /\ (session_aborts_on(cap) \/ human = "INT")
             r == IF skip THEN [file |-> memFile, ret |-> "skipped", n |-> 0]
                  ELSE add_lesson(memFile, backups,
                                  post_trade_lesson(v, status, human), today, ok)
         IN [closed |-> TRUE, file |-> r.file, lesson |-> r.ret, n |-> r.n,
             status |-> status]
    ELSE [closed |-> FALSE, file |-> memFile, lesson |-> "none", n |-> 0,
          status |-> status]

\* what a poll leaves in the history of observed statuses
ObservedAfter(p) ==
    IF p.status.is_active /\ p.status.direction = current_trade
    THEN [obs EXCEPT !.active = TRUE] ELSE obs

\* what the operator types for the lesson; "INT" = KeyboardInterrupt
HumanInputs == {"INT", "", "ctx"}

ApplyPoll_always_clears(op, p) ==
    /\ p.closed => Len(assigned) < MaxLessons
    /\ memFile' = p.file
    /\ current_trade' = None
    /\ assigned' = IF p.lesson = "ok" THEN Append(assigned, p.n) ELSE assigned
    /\ obs' = ObservedAfter(p)
    /\ lastOp' = Call(op, p.status.status, FormatId(p.n), 0, <<p.lesson>>, 0, TRUE)

\* the state change of one poll p, reported under the name op
ApplyPoll(op, p) ==
    /\ p.closed => Len(assigned) < MaxLessons
    /\ memFile' = p.file
    /\ current_trade' = IF p.closed THEN None ELSE current_trade
    /\ assigned' = IF p.lesson = "ok" THEN Append(assigned, p.n) ELSE assigned
    /\ obs' = ObservedAfter(p)
    /\ lastOp' = Call(op, p.status.status, FormatId(p.n), 0, <<p.lesson>>, 0, TRUE)

\* monitoring_session, the scheduled tick.  waiting_for_setup is never set
\* to True, so the tick only polls an active trade.  The post-trade capture
\* and the operator's text are inputs of the manual variant only.
MonitoringSession(cap, human, ok) ==
    /\ pc = "running" /\ ~shutdown_requested
    /\ variant = "claude" => cap = Capture(TRUE, {}) /\ human = ""
    /\ IF (variant = "completo" /\ ~inHours) \/ current_trade = None
       THEN /\ lastOp' = Call("monitor_tick", "skipped", NoId, 0, <<>>, 0, TRUE)
            /\ UNCHANGED <<polling, saving, storeVars, today, chanVars, orchVars, histVars>>
       ELSE /\ ApplyPoll("monitor_tick", monitor_poll(variant, cap, human, ok))
            /\ UNCHANGED <<polling, saving, backups, today, chanVars, variant, waiting_for_setup,
                           shutdown_requested, is_running, monitors, inHours, pc,
                           oracle, lastWrite, tampered>>

monitor_loop_runs_ignoring_shutdown(trade, shutdown) == trade # None

\* while self.current_trade and not self.shutdown_requested
monitor_loop_runs(trade, shutdown) == trade # None /\ ~shutdown

\* one iteration of the loop of the thread _start_trade_monitoring starts:
\* while self.current_trade and not self.shutdown_requested
MonitorThreadStep(ok) ==
    /\ variant = "claude"
    /\ pc # "exited"
    /\ monitors > 0
    /\ IF ~monitor_loop_runs(current_trade, shutdown_requested)
       THEN /\ monitors' = monitors - 1
            /\ lastOp' = Call("monitor_thread", "exit", NoId, 0, <<>>, 0, TRUE)
            /\ UNCHANGED <<polling, saving, storeVars, today, chanVars, variant, current_trade,
                           waiting_for_setup, shutdown_requested, is_running,
                           inHours, pc, oracle, histVars>>
       ELSE LET p == monitor_poll(variant, Capture(TRUE, {}), "", ok) IN
            /\ ApplyPoll("monitor_thread", p)
            /\ monitors' = IF p.closed THEN monitors - 1 ELSE monitors
            /\ UNCHANGED <<polling, saving, backups, today, chanVars, variant, waiting_for_setup,
                           shutdown_requested, is_running, inHours, pc, oracle,
                           lastWrite, tampered>>

\* the channel files that do not exist
MissingFiles(cmd, status) ==
    (IF cmd.exists THEN <<>> ELSE <<"commands">>)
        \o (IF status.exists THEN <<>> ELSE <<"status">>)

HealthCheck_resets_trade(writable, ok) ==
    /\ variant = "completo"
    /\ pc = "running" /\ ~shutdown_requested
    /\ LET m == get_recent_lessons(memFile, backups, 1, 4, today, ok)
           issue == ~check_mt5_files(cmdFile, statusFile, writable)
           e == ensure_files(variant, cmdFile, statusFile, ok)
       IN /\ memFile' = m.file
          /\ cmdFile' = IF issue THEN e.cmd ELSE cmdFile
          /\ statusFile' = IF issue THEN e.status ELSE statusFile
          /\ current_trade' = IF issue THEN None ELSE current_trade
          /\ lastWrite' = IF issue /\ ~e.raised
                          THEN Written("repair", "", FALSE, FALSE) ELSE lastWrite
          /\ lastOp' = Call("health",
                            IF ~issue THEN "healthy"
                            ELSE IF e.raised THEN "repair_failed" ELSE "repaired",
                            NoId, 0, MissingFiles(cmdFile, statusFile), 0, TRUE)
    /\ UNCHANGED <<polling, saving, backups, today, variant, waiting_for_setup,
                   shutdown_requested, is_running, monitors, inHours, pc, oracle,
                   obs, assigned, tampered>>

\* _system_health_check with _attempt_auto_repair (manual variant only)
HealthCheck(writable, ok) ==
    /\ variant = "completo"
    /\ pc = "running" /\ ~shutdown_requested
    /\ LET m == get_recent_lessons(memFile, backups, 1, 4, today, ok)
           issue == ~check_mt5_files(cmdFile, statusFile, writable)
           e == ensure_files(variant, cmdFile, statusFile, ok)
       IN /\ memFile' = m.file
          /\ cmdFile' = IF issue THEN e.cmd ELSE cmdFile
          /\ statusFile' = IF issue THEN e.status ELSE statusFile
          /\ lastWrite' = IF issue /\ ~e.raised
                          THEN Written("repair", "", FALSE, FALSE) ELSE lastWrite
          /\ lastOp' = Call("health",
                            IF ~issue THEN "healthy"
                            ELSE IF e.raised THEN "repair_failed" ELSE "repaired",
                            NoId, 0, MissingFiles(cmdFile, statusFile), 0, TRUE)
    /\ UNCHANGED <<polling, saving, backups, today, orchVars, obs, assigned, tampered>>

\* start_scheduler / start_automated_system: self.is_running = True
StartScheduler ==
    /\ pc = "constructed"
    /\ pc' = "running"
    /\ is_running' = TRUE
    /\ lastOp' = Call("start", "ok", NoId, 0, <<>>, 0, TRUE)
    /\ UNCHANGED <<polling, saving, storeVars, today, chanVars, variant, current_trade,
                   waiting_for_setup, shutdown_requested, monitors, inHours,
                   oracle, histVars>>

\* signal_handler: self.shutdown_requested = True
Signal ==
    /\ pc # "exited" /\ ~shutdown_requested
    /\ shutdown_requested' = TRUE
    /\ lastOp' = Call("signal", "ok", NoId, 0, <<>>, 0, TRUE)
    /\ UNCHANGED <<polling, saving, storeVars, today, chanVars, variant, current_trade,
                   waiting_for_setup, is_running, monitors, inHours, pc, oracle,
                   histVars>>

\* _graceful_shutdown, after the scheduler loop ended on the shutdown flag
\* or (Claude variant) on the 'quit' command.  SistemaTradingClaudeAI sends
\* CLOSE when a trade is tracked; SistemaTradingCompleto only when the
\* configuration has shutdown.close_trades, which the default lacks.
GracefulShutdown(ok) ==
    /\ pc = "running"
    /\ shutdown_requested \/ variant = "claude"
    /\ LET closes == variant = "claude" /\ current_trade # None
           s == IF closes THEN send_command_to_mt5(cmdFile, "4", ok)
                ELSE [file |-> cmdFile, ret |-> FALSE]
       IN /\ cmdFile' = s.file
          /\ lastWrite' = IF s.ret THEN Written("shutdown", "4", FALSE, FALSE)
                          ELSE lastWrite
          /\ lastOp' = Call("shutdown", IF s.ret THEN "sent" ELSE "ok", NoId, 0,
                            IF closes THEN <<"4">> ELSE <<>>, 0, TRUE)
    /\ is_running' = FALSE
    /\ pc' = "exited"
    /\ monitors' = 0
    /\ UNCHANGED <<polling, saving, storeVars, today, statusFile, variant, current_trade,
                   waiting_for_setup, shutdown_requested, inHours, oracle, obs,
                   assigned, tampered>>

(***************************************************************************)
(* Environment                                                             *)
(***************************************************************************)
LongPrices(status) ==
    Line(status, "1001", "1.0950", "1.0900", "1.1000", "2025-01-01", <<"done">>)
ShortPrices(status) ==
    Line(status, "1001", "1.0950", "1.1000", "1.0900", "2025-01-01", <<"done">>)

\* the lines the execution terminal writes
StatusLines ==
    {LongPrices("LONG_ACTIVE"), ShortPrices("SHORT_ACTIVE"),
     LongPrices("TP_HIT"), LongPrices("SL_HIT")}

\* the execution terminal rewrites the status file
TerminalWrite(line) ==
    /\ statusFile # File(line)
    /\ statusFile' = File(line)
    /\ lastOp' = Call("terminal", "ok", NoId, 0, <<>>, 0, TRUE)
    /\ UNCHANGED <<polling, saving, storeVars, today, cmdFile, orchVars, histVars>>

NoResponse == Response("json", "null", {}, Str(""), Conf("null", 0))

\* answers used where the decision source is not the subject
FewAnswers(v) ==
    IF v = "claude"
    THEN {Answer(r, <<>>) : r \in {ApiError, Decided("2", 70), Decided("3", 70),
                                   Decided("4", 70)}}
    ELSE {Answer(NoResponse, c) : c \in {<<"2">>, <<"3">>, <<"4">>,
                                         <<"x", "x", "x">>}}

\* a channel file is deleted from outside
ExtDelete(f) ==
    /\ pc = "running"
    /\ IF f = "commands"
       THEN cmdFile.exists /\ cmdFile' = NoFile /\ UNCHANGED statusFile
       ELSE statusFile.exists /\ statusFile' = NoFile /\ UNCHANGED cmdFile
    /\ lastOp' = Call("delete", f, NoId, 0, <<>>, 0, TRUE)
    /\ UNCHANGED <<polling, saving, storeVars, today, orchVars, histVars>>

\* the decision source will answer a
OracleChange(a) ==
    /\ a \in FewAnswers(variant)
    /\ oracle # a
    /\ oracle' = a
    /\ lastOp' = Call("oracle", "ok", NoId, 0, <<>>, 0, TRUE)
    /\ UNCHANGED <<polling, saving, storeVars, today, chanVars, variant, current_trade,
                   waiting_for_setup, shutdown_requested, is_running, monitors,
                   inHours, pc, histVars>>

\* the trading-hours window opens or closes
Clock ==
    /\ variant = "completo"
    /\ inHours' = ~inHours
    /\ lastOp' = Call("clock", "ok", NoId, 0, <<>>, 0, TRUE)
    /\ UNCHANGED <<polling, saving, storeVars, today, chanVars, variant, current_trade,
                   waiting_for_setup, shutdown_requested, is_running, monitors,
                   pc, oracle, histVars>>

(***************************************************************************)
(* Inputs of the store operations                                          *)
(***************************************************************************)
LessonInputs ==
    [pair : {"", "eurusd"}, type : {"T"}, context : {" ctx "},
     rule : {"r"}, result : {"res"}, relevance : {0, 4, 5, 6}, tags : {<<>>}]

\* lesson inputs with exactly one of the required text fields empty
EmptyFieldInputs ==
    {[[pair |-> "eurusd", type |-> "T", context |-> " ctx ", rule |-> "r",
       result |-> "res", relevance |-> 4, tags |-> <<>>] EXCEPT ![f] = ""] :
        f \in {"pair", "type", "context", "rule", "result"}}

\* the required text fields of an input that are empty
EmptyFields(inp) ==
    {f \in {"pair", "type", "context", "rule", "result"} : inp[f] = ""}

TargetIds == {FormatId(SeedCount + 1), FormatId(99)}

Updates ==
    [has : {{"relevance"}, {"id"}}, relevance : {3}, context : {"edited"},
     id : {FormatId(1)}]

Limits == {1, 2}
MinRelevances == {4, 5}

(***************************************************************************)
(* Store actions                                                           *)
(***************************************************************************)
\* LocalTradingMemory.__init__: ensure_memory_file, then _create_backup
Construct(ok) ==
    /\ Len(backups) < MaxConstruct
    /\ LET s == IF memFile.kind = "absent"
                THEN save_memory(memFile, initial_data, today, ok)
                ELSE [file |-> memFile, raised |-> FALSE]
       IN /\ memFile' = s.file
          /\ backups' = IF s.raised THEN backups ELSE create_backup(s.file, backups)
          /\ lastOp' = Call("construct", IF s.raised THEN "IOError" ELSE "ok",
                            NoId, 0, <<>>, 0, ok)
    /\ UNCHANGED <<polling, saving, today, chanVars, orchVars, histVars>>

AddLesson(inp, ok) ==
    /\ Len(assigned) < MaxAdds
    /\ LET r == add_lesson(memFile, backups, inp, today, ok) IN
       /\ memFile' = r.file
       /\ assigned' = IF r.ret = "ok" THEN Append(assigned, r.n) ELSE assigned
       /\ lastOp' = Call("add", r.ret, FormatId(r.n), inp.relevance,
                         IF EmptyFields(inp) = {} THEN <<>> ELSE <<"empty">>, 0, ok)
    /\ UNCHANGED <<polling, saving, backups, today, chanVars, orchVars, lastWrite, obs, tampered>>

UpdateLesson(lesson_id, upd, ok) ==
    /\ LET r == update_lesson(memFile, backups, lesson_id, upd, today, ok) IN
       /\ memFile' = r.file
       /\ lastOp' = Call("update", r.ret, lesson_id, 0, <<>>, 0, ok)
    /\ UNCHANGED <<polling, saving, backups, today, chanVars, orchVars, histVars>>

DeleteLesson(lesson_id, ok) ==
    /\ LET r == delete_lesson(memFile, backups, lesson_id, today, ok) IN
       /\ memFile' = r.file
       /\ lastOp' = Call("delete", r.ret, lesson_id, 0, <<>>, 0, ok)
    /\ UNCHANGED <<polling, saving, backups, today, chanVars, orchVars, histVars>>

GetRecentLessons(limit, min_relevance, ok) ==
    /\ LET r == get_recent_lessons(memFile, backups, limit, min_relevance, today, ok) IN
       /\ memFile' = r.file
       /\ lastOp' = Call("recent", r.ret, NoId, min_relevance,
                         [i \in 1..Len(r.out) |-> r.out[i].id], limit, ok)
    /\ UNCHANGED <<polling, saving, backups, today, chanVars, orchVars, histVars>>

\* LocalTradingMemory.load_memory called on its own
LoadMemory(ok) ==
    /\ LET l == load_memory(memFile, backups, today, ok) IN
       /\ memFile' = l.file
       /\ lastOp' = Call("load", IF l.raised THEN "IOError" ELSE l.data.kind,
                         FormatId(l.data.last_lesson_id), 0,
                         [i \in 1..Len(l.data.lessons) |-> l.data.lessons[i].id], 0, ok)
    /\ UNCHANGED <<polling, saving, backups, today, chanVars, orchVars, histVars>>

\* environment: the primary file is damaged or removed outside the store
ExtCorrupt(k) ==
    /\ memFile.kind = "store"
    /\ memFile' = FileOf(k, <<>>, 0, 0, 0)
    /\ tampered' = TRUE
    /\ lastOp' = Call("corrupt", k, NoId, 0, <<>>, 0, TRUE)
    /\ UNCHANGED <<polling, saving, backups, today, chanVars, orchVars, lastWrite, obs, assigned>>

\* environment: the date changes
NextDay ==
    /\ today < FirstDay + MaxDays
    /\ today' = today + 1
    /\ lastOp' = Call("day", "ok", NoId, 0, <<>>, 0, TRUE)
    /\ UNCHANGED <<polling, saving, storeVars, chanVars, orchVars, histVars>>

(***************************************************************************)
(* save_memory step by step, with the two callers of the Claude variant    *)
(***************************************************************************)
\* The threads that write a post-trade lesson: the scheduler loop running
\* monitoring_session and the thread made by _start_trade_monitoring.
Writers == {"tick", "monitor"}

MaxChunks == 2      \* write calls json.dump makes on the temporary file

SaveInput ==
    [pair |-> "eurusd", type |-> "T", context |-> " ctx ", rule |-> "r",
     result |-> "res", relevance |-> 4, tags |-> <<>>]

NoTmp == [exists |-> FALSE, content |-> Absent]

\* pc: where each caller is in add_lesson / save_memory; data: the
\* memory_data it is saving; on: the name its open file object's inode
\* bears now; pos: chunks it has written; dirty: another caller truncated
\* or wrote the same inode since it was opened; tmp: trading_memory.tmp
NoSaving ==
    [pc    |-> [w \in Writers |-> "idle"],
     pos   |-> [w \in Writers |-> 0],
     on    |-> [w \in Writers |-> "none"],
     dirty |-> [w \in Writers |-> FALSE],
     data  |-> [w \in Writers |-> Absent],
     tmp   |-> NoTmp]

SaveStep(step, ret) == Call("save_memory", ret, NoId, 0, <<step>>, 0, ret # "IOError")

\* add_lesson up to its call of save_memory: validation, load_memory, the
\* new lesson appended to the loaded value
SaveBegin(w) ==
    /\ variant = "claude"
    /\ saving.pc[w] = "idle"
    /\ LET l == load_memory(memFile, backups, today, TRUE)
           r == add_lesson(l.file, backups, SaveInput, today, TRUE)
       IN /\ memFile' = l.file
          /\ saving' = IF r.ret = "ok"
                       THEN [saving EXCEPT !.pc[w] = "loaded", !.data[w] = r.file]
                       ELSE [saving EXCEPT !.pc[w] = "raised"]
          /\ lastOp' = SaveStep("load", r.ret)
    /\ UNCHANGED <<polling, backups, today, chanVars, orchVars, histVars>>

\* the except clause: unlink the temporary file if it exists, re-raise
SaveFailed(w) ==
    [saving EXCEPT !.pc[w] = "raised",
                   !.on = [u \in Writers |->
                              IF u = w THEN "none"
                              ELSE IF saving.tmp.exists /\ saving.on[u] = "tmp"
                                   THEN "unlinked" ELSE saving.on[u]],
                   !.tmp = NoTmp]

\* open(temp_path, 'w'): creates the file, or truncates the one there
SaveOpen(w, ok) ==
    /\ saving.pc[w] = "loaded"
    /\ saving' =
         IF ok
         THEN [saving EXCEPT !.pc[w] = "open", !.pos[w] = 0,
                             !.on[w] = "tmp",
                             !.dirty = [u \in Writers |->
                                          IF u = w THEN FALSE
                                          ELSE saving.dirty[u] \/ saving.on[u] = "tmp"],
                             !.tmp = [exists |-> TRUE, content |-> Garbage]]
         ELSE SaveFailed(w)
    /\ lastOp' = SaveStep("open", IF ok THEN "ok" ELSE "IOError")
    /\ UNCHANGED <<polling, storeVars, today, chanVars, orchVars, histVars>>

\* one write of json.dump through the open file object, the last one
\* followed by the close at the end of the with block.  The bytes go to the
\* inode the file object holds, whatever name it bears by now; clean = the
\* bytes of two callers on one inode happen to form this caller's document.
SaveWrite(w, ok, clean) ==
    /\ saving.pc[w] = "open"
    /\ saving.pos[w] < MaxChunks
    /\ clean \/ saving.dirty[w]
    /\ LET last == saving.pos[w] + 1 = MaxChunks
           content == IF last /\ (clean \/ ~saving.dirty[w])
                      THEN SavedForm(saving.data[w], today) ELSE Garbage
           name == saving.on[w]
       IN IF ok
          THEN /\ saving' =
                    [saving EXCEPT
                        !.pos[w] = @ + 1,
                        !.pc[w] = IF last THEN "closed" ELSE "open",
                        !.on[w] = IF last THEN "none" ELSE name,
                        !.dirty = [u \in Writers |->
                                     IF u # w /\ saving.on[u] = name /\ name # "unlinked"
                                     THEN TRUE ELSE saving.dirty[u]],
                        !.tmp = IF name = "tmp"
                                THEN [exists |-> TRUE, content |-> content]
                                ELSE saving.tmp]
               /\ memFile' = IF name = "primary" THEN content ELSE memFile
          ELSE saving' = SaveFailed(w) /\ memFile' = memFile
    /\ lastOp' = SaveStep("write", IF ok THEN "ok" ELSE "IOError")
    /\ UNCHANGED <<polling, backups, today, chanVars, orchVars, histVars>>

\* temp_path.replace(self.memory_path): the inode named trading_memory.tmp
\* becomes the primary file; FileNotFoundError when the name is gone
SaveReplace(w, ok) ==
    /\ saving.pc[w] = "closed"
    /\ IF ok /\ saving.tmp.exists
       THEN /\ memFile' = saving.tmp.content
            /\ saving' = [saving EXCEPT
                            !.pc[w] = "done",
                            !.on = [u \in Writers |->
                                      IF saving.on[u] = "tmp" THEN "primary"
                                      ELSE saving.on[u]],
                            !.tmp = NoTmp]
            /\ lastOp' = SaveStep("replace", "ok")
       ELSE /\ memFile' = memFile
            /\ saving' = SaveFailed(w)
            /\ lastOp' = SaveStep("replace", "IOError")
    /\ UNCHANGED <<polling, backups, today, chanVars, orchVars, histVars>>

\* the process dies: every caller stops where it is, nothing is cleaned up
SaveCrash ==
    /\ \E w \in Writers : saving.pc[w] \in {"loaded", "open", "closed"}
    /\ saving' = [saving EXCEPT
                    !.pc = [w \in Writers |->
                              IF saving.pc[w] \in {"loaded", "open", "closed"}
                              THEN "crashed" ELSE saving.pc[w]],
                    !.on = [w \in Writers |-> "none"]]
    /\ lastOp' = SaveStep("crash", "crashed")
    /\ UNCHANGED <<polling, storeVars, today, chanVars, orchVars, histVars>>

NoWrite == [by |-> "none", cmd |-> "", shots |-> FALSE, valid |-> FALSE]

\* A freshly seeded store: the state after LocalTradingMemory() ran in an
\* empty directory (ensure_memory_file seeds, _create_backup snapshots).
InitStore ==
    /\ memFile = SavedForm(initial_data, FirstDay)
    /\ backups = <<SavedForm(initial_data, FirstDay)>>
    /\ today = FirstDay
    /\ variant = "completo"
    /\ cmdFile = File(<<>>)
    /\ statusFile = File(default_status(variant))
    /\ current_trade = None
    /\ waiting_for_setup = FALSE
    /\ shutdown_requested = FALSE
    /\ is_running = FALSE
    /\ monitors = 0
    /\ inHours = TRUE
    /\ pc = "constructed"
    /\ oracle = Answer(NoResponse, <<>>)
    /\ lastOp = Call("construct", "ok", NoId, 0, <<>>, 0, TRUE)
    /\ lastWrite = NoWrite
    /\ obs = Observed("", FALSE)
    /\ assigned = <<>>
    /\ tampered = FALSE
    /\ saving = NoSaving
    /\ polling = <<>>

NextStore ==
    \/ \E inp \in LessonInputs \cup EmptyFieldInputs, ok \in BOOLEAN :
            AddLesson(inp, ok)
    \/ \E id \in TargetIds, upd \in Updates, ok \in BOOLEAN : UpdateLesson(id, upd, ok)
    \/ \E id \in TargetIds, ok \in BOOLEAN : DeleteLesson(id, ok)
    \/ \E limit \in Limits, mr \in MinRelevances, ok \in BOOLEAN :
            GetRecentLessons(limit, mr, ok)
    \/ \E k \in {"absent", "garbage", "nondict"} : ExtCorrupt(k)
    \/ NextDay

SpecStore == InitStore /\ [][NextStore]_vars

\* Adds, updates and deletes with texts that are blank and with update
\* values of either kind
FieldInputs ==
    [pair : {"eurusd"}, type : {"T"}, context : {" ", " ctx "},
     rule : {"r", "  "}, result : {"res"}, relevance : {4}, tags : {<<>>}]

FieldUpdates ==
    [has : {{"relevance"}, {"context"}}, relevance : {0, 3}, context : {"", "edited"},
     id : {FormatId(1)}]

NextFields ==
    \/ \E inp \in FieldInputs, ok \in BOOLEAN : AddLesson(inp, ok)
    \/ \E id \in TargetIds, upd \in FieldUpdates, ok \in BOOLEAN :
            UpdateLesson(id, upd, ok)
    \/ \E id \in TargetIds, ok \in BOOLEAN : DeleteLesson(id, ok)

SpecFields == InitStore /\ [][NextFields]_vars

\* Constructions, damage and loads, with one lesson input
BackupInput ==
    [pair |-> "eurusd", type |-> "T", context |-> " ctx ", rule |-> "r",
     result |-> "res", relevance |-> 4, tags |-> <<>>]

NextBackup ==
    \/ \E ok \in BOOLEAN : Construct(ok)
    \/ \E ok \in BOOLEAN : LoadMemory(ok)
    \/ \E ok \in BOOLEAN : AddLesson(BackupInput, ok)
    \/ \E ok \in BOOLEAN : GetRecentLessons(1, PostTradeRelevance, ok)
    \/ \E k \in {"absent", "garbage", "nondict"} : ExtCorrupt(k)

SpecBackup == InitStore /\ [][NextBackup]_vars

\* Queries with a type and a tag filter over a store that grows
QueryLimits == {1, 2, 7}
QueryTypes == {"", "T", "Timing"}
QueryTags == {<<>>, <<"win">>, <<"h4", "sl">>}

QueryLessons(limit, min_relevance, lesson_type, tags, ok) ==
    /\ LET r == get_recent_lessons_with(memFile, backups, limit, min_relevance,
                                        lesson_type, tags, today, ok) IN
       /\ memFile' = r.file
       /\ lastOp' = [op |-> "query", ret |-> r.ret, id |-> NoId,
                     rel |-> min_relevance,
                     out |-> [i \in 1..Len(r.out) |-> r.out[i].id],
                     limit |-> limit, io |-> ok,
                     type |-> lesson_type, tags |-> tags]
    /\ UNCHANGED <<polling, saving, backups, today, chanVars, orchVars, histVars>>

NextQuery ==
    \/ \E ok \in BOOLEAN : AddLesson(BackupInput, ok)
    \/ \E limit \in QueryLimits, mr \in MinRelevances, t \in QueryTypes,
          tg \in QueryTags, ok \in BOOLEAN : QueryLessons(limit, mr, t, tg, ok)
    \/ NextDay

SpecQuery == InitStore /\ [][NextQuery]_vars

(***************************************************************************)
(* The orchestrator with its environment                                   *)
(***************************************************************************)
\* The state after SistemaTradingCompleto() / SistemaTradingClaudeAI() ran
\* in a fresh environment: store seeded and snapshotted, channel files made.
Init ==
    /\ memFile = SavedForm(initial_data, FirstDay)
    /\ backups = <<SavedForm(initial_data, FirstDay)>>
    /\ today = FirstDay
    /\ variant \in Variants
    /\ cmdFile = File(<<>>)
    /\ statusFile = File(default_status(variant))
    /\ current_trade = None
    /\ waiting_for_setup = FALSE
    /\ shutdown_requested = FALSE
    /\ is_running = FALSE
    /\ monitors = 0
    /\ inHours = TRUE
    /\ pc = "constructed"
    /\ oracle \in FewAnswers(variant)
    /\ lastOp = Call("construct", "ok", NoId, 0, <<>>, 0, TRUE)
    /\ lastWrite = NoWrite
    /\ obs = Observed("", FALSE)
    /\ assigned = <<>>
    /\ tampered = FALSE
    /\ saving = NoSaving
    /\ polling = <<>>

Next ==
    \/ StartScheduler
    \/ \E cap \in CaptureResults, enc \in {{}, Timeframes}, ok \in BOOLEAN :
            ClaudeSession(cap, enc, ok)
    \/ \E cap \in CaptureResults, w \in BOOLEAN, ok \in BOOLEAN :
            ManualSession(cap, w, ok)
    \/ \E cap \in CaptureResults, h \in HumanInputs, ok \in BOOLEAN :
            MonitoringSession(cap, h, ok)
    \/ \E ok \in BOOLEAN : MonitorThreadStep(ok)
    \/ \E w \in BOOLEAN, ok \in BOOLEAN : HealthCheck(w, ok)
    \/ Signal
    \/ \E ok \in BOOLEAN : GracefulShutdown(ok)
    \/ \E line \in StatusLines : TerminalWrite(line)
    \/ \E a \in FewAnswers("claude") \cup FewAnswers("completo") : OracleChange(a)
    \/ Clock

Spec == Init /\ [][Next]_vars

(***************************************************************************)
(* The orchestrator stopped and started again                              *)
(***************************************************************************)
\* the process is killed: nothing runs any more, no handler is executed
Crash ==
    /\ pc = "running"
    /\ pc' = "exited"
    /\ monitors' = 0
    /\ lastOp' = Call("crash", "ok", NoId, 0, <<>>, 0, TRUE)
    /\ UNCHANGED <<polling, saving, storeVars, today, chanVars, variant, current_trade,
                   waiting_for_setup, shutdown_requested, is_running, inHours,
                   oracle, histVars>>

\* SistemaTradingClaudeAI() / SistemaTradingCompleto() run again after the
\* process ended: LocalTradingMemory() (ensure_memory_file, _create_backup),
\* the trading state fields, ensure_all_files_exist / ensure_mt5_files_exist.
\* The call reports the trade the ended process was tracking.
Restart(ok) ==
    /\ pc = "exited"
    /\ Len(backups) < MaxConstruct
    /\ LET s == IF memFile.kind = "absent"
                THEN save_memory(memFile, initial_data, today, ok)
                ELSE [file |-> memFile, raised |-> FALSE]
           e == ensure_files(variant, cmdFile, statusFile, ok)
           up == ~s.raised /\ ~e.raised
       IN /\ memFile' = s.file
          /\ backups' = IF s.raised THEN backups ELSE create_backup(s.file, backups)
          /\ cmdFile' = IF up THEN e.cmd ELSE cmdFile
          /\ statusFile' = IF up THEN e.status ELSE statusFile
          /\ current_trade' = IF up THEN None ELSE current_trade
          /\ shutdown_requested' = IF up THEN FALSE ELSE shutdown_requested
          /\ is_running' = IF up THEN FALSE ELSE is_running
          /\ pc' = IF up THEN "constructed" ELSE pc
          /\ lastOp' = Call("restart", IF up THEN "ok" ELSE "IOError", NoId, 0,
                            <<current_trade>>, 0, ok)
    /\ UNCHANGED <<polling, saving, today, variant, waiting_for_setup, monitors, inHours,
                   oracle, histVars>>

NextRestart ==
    \/ StartScheduler
    \/ ClaudeSession(Capture(FALSE, Timeframes), Timeframes, TRUE)
    \/ ManualSession(Capture(FALSE, Timeframes), TRUE, TRUE)
    \/ \E h \in HumanInputs : MonitoringSession(Capture(TRUE, {}), h, TRUE)
    \/ MonitorThreadStep(TRUE)
    \/ \E line \in StatusLines : TerminalWrite(line)
    \/ Signal
    \/ GracefulShutdown(TRUE)
    \/ Crash
    \/ \E ok \in BOOLEAN : Restart(ok)

SpecRestart == Init /\ [][NextRestart]_vars

(***************************************************************************)
(* The monitor thread's poll in two steps, beside the session trigger      *)
(***************************************************************************)
\* monitor_active_trade up to its test of the status: the thread leaves its
\* loop, or reads the status file and, the status being terminal, goes on
\* to generate_post_trade_lesson.  An entry of polling keeps the status read
\* and the last command-file write at that moment.
ThreadRead ==
    /\ variant = "claude"
    /\ pc # "exited"
    /\ Len(polling) < monitors
    /\ IF ~monitor_loop_runs(current_trade, shutdown_requested)
       THEN /\ monitors' = monitors - 1
            /\ polling' = polling
            /\ obs' = obs
            /\ lastOp' = Call("thread_read", "exit", NoId, 0, <<>>, 0, TRUE)
       ELSE LET status == read_mt5_status(variant, statusFile) IN
            /\ monitors' = monitors
            /\ polling' = IF status.status \in TerminalStatuses
                          THEN Append(polling, [status |-> status, seen |-> lastWrite])
                          ELSE polling
            /\ obs' = IF status.is_active /\ status.direction = current_trade
                      THEN [obs EXCEPT !.active = TRUE] ELSE obs
            /\ lastOp' = Call("thread_read", status.status, NoId, 0, <<>>, 0, TRUE)
    /\ UNCHANGED <<saving, storeVars, today, chanVars, variant, current_trade,
                   waiting_for_setup, shutdown_requested, is_running, inHours, pc,
                   oracle, lastWrite, assigned, tampered>>

\* the rest of monitor_active_trade for a terminal status:
\* generate_post_trade_lesson(status), self.current_trade = None, return True
ThreadReflect(ok) ==
    /\ variant = "claude"
    /\ pc # "exited"
    /\ polling # <<>>
    /\ Len(assigned) < MaxLessons
    /\ LET status == polling[1].status
           r == add_lesson(memFile, backups, post_trade_lesson(variant, status, ""),
                           today, ok)
       IN /\ memFile' = r.file
          /\ assigned' = IF r.ret = "ok" THEN Append(assigned, r.n) ELSE assigned
          /\ lastOp' = Call("thread_reflect", status.status, FormatId(r.n), 0,
                            <<r.ret>>, 0, TRUE)
    /\ current_trade' = None
    /\ monitors' = monitors - 1
    /\ polling' = Tail(polling)
    /\ UNCHANGED <<saving, backups, today, chanVars, variant, waiting_for_setup,
                   shutdown_requested, is_running, inHours, pc, oracle, lastWrite,
                   obs, tampered>>

InitRace == Init /\ variant = "claude"

NextRace ==
    \/ StartScheduler
    \/ ClaudeSession(Capture(FALSE, Timeframes), Timeframes, TRUE)
    \/ ThreadRead
    \/ \E ok \in BOOLEAN : ThreadReflect(ok)
    \/ \E line \in StatusLines : TerminalWrite(line)
    \/ \E a \in FewAnswers("claude") : OracleChange(a)

SpecRace == InitRace /\ [][NextRace]_vars

(***************************************************************************)
(* Monitoring while the clock leaves and enters the trading-hours window   *)
(***************************************************************************)
\* time passes the start or the end of config trading.trading_hours, in
\* either variant
ClockTick ==
    /\ inHours' = ~inHours
    /\ lastOp' = Call("clock", "ok", NoId, 0, <<>>, 0, TRUE)
    /\ UNCHANGED <<polling, saving, storeVars, today, chanVars, variant, current_trade,
                   waiting_for_setup, shutdown_requested, is_running, monitors,
                   pc, oracle, histVars>>

NextHours ==
    \/ StartScheduler
    \/ ClaudeSession(Capture(FALSE, Timeframes), Timeframes, TRUE)
    \/ ManualSession(Capture(FALSE, Timeframes), TRUE, TRUE)
    \/ \E cap \in CaptureResults, h \in HumanInputs : MonitoringSession(cap, h, TRUE)
    \/ MonitorThreadStep(TRUE)
    \/ \E line \in StatusLines : TerminalWrite(line)
    \/ ClockTick

SpecHours == Init /\ [][NextHours]_vars

(***************************************************************************)
(* The manual variant's monitoring tick up to and after its input() calls  *)
(***************************************************************************)
\* monitoring_session / monitor_trade of SistemaTradingCompleto until it
\* returns or reaches the first input() of generate_post_trade_lesson.  The
\* scheduler thread is then inside input(): pc = "awaiting_input".
TickBegin(cap) ==
    /\ variant = "completo"
    /\ pc = "running" /\ ~shutdown_requested
    /\ inHours /\ current_trade # None
    /\ LET status == read_mt5_status(variant, statusFile)
           closed == status.status \in TerminalStatuses
           asks == closed /\ ~session_aborts_on(cap)
       IN /\ pc' = IF asks THEN "awaiting_input" ELSE pc
          /\ polling' = IF asks THEN <<[status |-> status, seen |-> lastWrite]>>
                        ELSE polling
          /\ current_trade' = IF closed /\ ~asks THEN None ELSE current_trade
          /\ obs' = IF status.is_active /\ status.direction = current_trade
                    THEN [obs EXCEPT !.active = TRUE] ELSE obs
          /\ lastOp' = Call("monitor_tick",
                            IF asks THEN "awaiting_input" ELSE status.status,
                            NoId, 0, IF closed /\ ~asks THEN <<"skipped">> ELSE <<>>,
                            0, TRUE)
    /\ UNCHANGED <<saving, storeVars, today, chanVars, variant, waiting_for_setup,
                   shutdown_requested, is_running, monitors, inHours, oracle,
                   lastWrite, assigned, tampered>>

\* the operator answers the prompts (human = "INT": KeyboardInterrupt); the
\* tick goes on with add_lesson, self.current_trade = None and returns
OperatorTypes(human, ok) ==
    /\ pc = "awaiting_input"
    /\ Len(assigned) < MaxLessons
    /\ LET status == polling[1].status
           r == IF human = "INT" THEN [file |-> memFile, ret |-> "skipped", n |-> 0]
                ELSE add_lesson(memFile, backups,
                                post_trade_lesson(variant, status, human), today, ok)
       IN /\ memFile' = r.file
          /\ assigned' = IF r.ret = "ok" THEN Append(assigned, r.n) ELSE assigned
          /\ lastOp' = Call("monitor_tick", status.status, FormatId(r.n), 0,
                            <<r.ret>>, 0, TRUE)
    /\ current_trade' = None
    /\ pc' = "running"
    /\ polling' = <<>>
    /\ UNCHANGED <<saving, backups, today, chanVars, variant, waiting_for_setup,
                   shutdown_requested, is_running, monitors, inHours, oracle,
                   lastWrite, obs, tampered>>

InitPrompt == Init /\ variant = "completo"

NextPrompt ==
    \/ StartScheduler
    \/ ManualSession(Capture(FALSE, Timeframes), TRUE, TRUE)
    \/ \E cap \in CaptureResults : TickBegin(cap)
    \/ \E h \in HumanInputs, ok \in BOOLEAN : OperatorTypes(h, ok)
    \/ \E w \in BOOLEAN, ok \in BOOLEAN : HealthCheck(w, ok)
    \/ \E line \in StatusLines : TerminalWrite(line)
    \/ \E a \in FewAnswers("completo") : OracleChange(a)

SpecPrompt == InitPrompt /\ [][NextPrompt]_vars

(***************************************************************************)
(* ensure_mt5_files_exist in two steps, beside the execution terminal      *)
(***************************************************************************)
\* the auto-repair of a health check that found a channel file missing:
\* ensure_mt5_files_exist up to its test `not self.mt5_status_file.exists()`.
\* When the test finds the file missing the thread goes on to open it for
\* writing: pc = "seeding".  Otherwise the call ends with _validate_mt5_files.
EnsureTest(ok) ==
    /\ variant = "completo"
    /\ pc = "running" /\ ~shutdown_requested
    /\ ~check_mt5_files(cmdFile, statusFile, TRUE)
    /\ LET c == IF cmdFile.exists THEN cmdFile ELSE File(<<>>) IN
       IF ~ok
       THEN /\ lastOp' = Call("health", "repair_failed", NoId, 0,
                              MissingFiles(cmdFile, statusFile), 0, TRUE)
            /\ UNCHANGED <<cmdFile, pc, lastWrite>>
       ELSE IF statusFile.exists
       THEN /\ cmdFile' = validate_mt5_files(c)
            /\ lastWrite' = Written("repair", "", FALSE, FALSE)
            /\ lastOp' = Call("health", "repaired", NoId, 0,
                              MissingFiles(cmdFile, statusFile), 0, TRUE)
            /\ UNCHANGED pc
       ELSE /\ cmdFile' = c
            /\ pc' = "seeding"
            /\ lastOp' = Call("health", "seeding", NoId, 0,
                              MissingFiles(cmdFile, statusFile), 0, TRUE)
            /\ UNCHANGED lastWrite
    /\ UNCHANGED <<polling, saving, storeVars, today, statusFile, variant, current_trade,
                   waiting_for_setup, shutdown_requested, is_running, monitors,
                   inHours, oracle, obs, assigned, tampered>>

\* open(self.mt5_status_file, 'w'), f.write(default_status), then
\* _validate_mt5_files; open(.., 'w') truncates a file that exists by now
EnsureSeed(ok) ==
    /\ pc = "seeding"
    /\ IF ok
       THEN /\ statusFile' = File(default_status(variant))
            /\ cmdFile' = validate_mt5_files(cmdFile)
            /\ lastWrite' = Written("repair", "", FALSE, FALSE)
            /\ lastOp' = Call("health", "repaired", NoId, 0, <<"status">>, 0, TRUE)
       ELSE /\ lastOp' = Call("health", "repair_failed", NoId, 0, <<"status">>, 0, TRUE)
            /\ UNCHANGED <<chanVars, lastWrite>>
    /\ pc' = "running"
    /\ UNCHANGED <<polling, saving, storeVars, today, variant, current_trade,
                   waiting_for_setup, shutdown_requested, is_running, monitors,
                   inHours, oracle, obs, assigned, tampered>>

InitSeed == Init /\ variant = "completo"

NextSeed ==
    \/ StartScheduler
    \/ \E f \in {"commands", "status"} : ExtDelete(f)
    \/ \E ok \in BOOLEAN : EnsureTest(ok)
    \/ \E ok \in BOOLEAN : EnsureSeed(ok)
    \/ \E line \in StatusLines : TerminalWrite(line)

SpecSeed == InitSeed /\ [][NextSeed]_vars

(***************************************************************************)
(* Sessions of both variants with channel files that get deleted           *)
(***************************************************************************)
NextPrecheck ==
    \/ StartScheduler
    \/ \E f \in {"commands", "status"} : ExtDelete(f)
    \/ \E cap \in CaptureResults, enc \in {{}, Timeframes}, ok \in BOOLEAN :
            ClaudeSession(cap, enc, ok)
    \/ \E cap \in CaptureResults, w \in BOOLEAN, ok \in BOOLEAN :
            ManualSession(cap, w, ok)
    \/ \E a \in FewAnswers("claude") \cup FewAnswers("completo") : OracleChange(a)

SpecPrecheck == Init /\ [][NextPrecheck]_vars

(***************************************************************************)
(* Monitoring polls over every kind of status file content                 *)
(***************************************************************************)
\* an error line, a status word the orchestrator does not know, a line with
\* too few fields and an empty file
OtherLines == {LongPrices("ERROR"), LongPrices("PENDING"), <<"A">>, <<>>}

NextPoll ==
    \/ StartScheduler
    \/ ClaudeSession(Capture(FALSE, Timeframes), Timeframes, TRUE)
    \/ ManualSession(Capture(FALSE, Timeframes), TRUE, TRUE)
    \/ \E cap \in CaptureResults, h \in HumanInputs : MonitoringSession(cap, h, TRUE)
    \/ MonitorThreadStep(TRUE)
    \/ \E line \in StatusLines \cup OtherLines : TerminalWrite(line)
    \/ ExtDelete("status")
    \/ \E a \in FewAnswers("claude") \cup FewAnswers("completo") : OracleChange(a)

SpecPoll == Init /\ [][NextPoll]_vars

(***************************************************************************)
(* The monitor thread and the scheduled tick polling the same trade        *)
(***************************************************************************)
\* The two callers of monitor_active_trade in SistemaTradingClaudeAI: the
\* thread of _start_trade_monitoring and monitoring_session on the scheduler
\* thread.  A poller that read a terminal status is in polling until it has
\* cleared current_trade; phase "read" = before add_lesson's load_memory,
\* "loaded" = between load_memory and save_memory, loaded = what it loaded.
Pollers == {"thread", "tick"}

IsPolling(who) == \E i \in 1..Len(polling) : polling[i].by = who

PollerEntry(who) == polling[CHOOSE i \in 1..Len(polling) : polling[i].by = who]

\* status = self.read_mt5_status() and the test for a terminal status
PollerRead(who) ==
    /\ variant = "claude"
    /\ pc = "running"
    /\ ~IsPolling(who)
    /\ IF who = "thread"
       THEN monitors > 0 /\ monitor_loop_runs(current_trade, shutdown_requested)
       ELSE current_trade # None /\ ~shutdown_requested
    /\ LET status == read_mt5_status(variant, statusFile) IN
       /\ polling' = IF status.status \in TerminalStatuses
                     THEN Append(polling, [status |-> status, seen |-> lastWrite,
                                           by |-> who, phase |-> "read",
                                           loaded |-> Absent])
                     ELSE polling
       /\ obs' = IF status.is_active /\ status.direction = current_trade
                 THEN [obs EXCEPT !.active = TRUE] ELSE obs
       /\ lastOp' = Call("poller_read", status.status, NoId, 0, <<who>>, 0, TRUE)
    /\ UNCHANGED <<saving, storeVars, today, chanVars, variant, current_trade,
                   waiting_for_setup, shutdown_requested, is_running, monitors,
                   inHours, pc, oracle, lastWrite, assigned, tampered>>

\* generate_post_trade_lesson up to memory = self.load_memory() in add_lesson
PollerLoad(who) ==
    /\ IsPolling(who) /\ PollerEntry(who).phase = "read"
    /\ memFile.kind = "store"
    /\ polling' = [i \in 1..Len(polling) |->
                      IF polling[i].by = who
                      THEN [polling[i] EXCEPT !.phase = "loaded", !.loaded = memFile]
                      ELSE polling[i]]
    /\ lastOp' = Call("poller_load", "ok", FormatId(memFile.last_lesson_id), 0,
                      <<who>>, 0, TRUE)
    /\ UNCHANGED <<saving, storeVars, today, chanVars, orchVars, histVars>>

\* the rest of add_lesson on what was loaded (new id, append, save_memory),
\* then self.current_trade = None; the thread leaves its loop on True
PollerSave(who, ok) ==
    /\ IsPolling(who) /\ PollerEntry(who).phase = "loaded"
    /\ Len(assigned) < MaxAdds
    /\ LET e == PollerEntry(who)
           r == add_lesson(e.loaded, backups,
                           post_trade_lesson(variant, e.status, ""), today, ok)
       IN /\ memFile' = IF r.ret = "ok" THEN r.file ELSE memFile
          /\ assigned' = IF r.ret = "ok" THEN Append(assigned, r.n) ELSE assigned
          /\ lastOp' = Call("poller_save", e.status.status, FormatId(r.n), 0,
                            <<r.ret>>, 0, ok)
    /\ current_trade' = None
    /\ monitors' = IF who = "thread" THEN monitors - 1 ELSE monitors
    /\ polling' = SelectSeq(polling, LAMBDA x : x.by # who)
    /\ UNCHANGED <<saving, backups, today, chanVars, variant, waiting_for_setup,
                   shutdown_requested, is_running, inHours, pc, oracle, lastWrite,
                   obs, tampered>>

NextPollers ==
    \/ StartScheduler
    \/ ClaudeSession(Capture(FALSE, Timeframes), Timeframes, TRUE)
    \/ \E who \in Pollers : PollerRead(who)
    \/ \E who \in Pollers : PollerLoad(who)
    \/ \E who \in Pollers, ok \in BOOLEAN : PollerSave(who, ok)
    \/ \E line \in StatusLines : TerminalWrite(line)

SpecPollers == InitRace /\ [][NextPollers]_vars

(***************************************************************************)
(* The manual variant's scheduler with channel files that get deleted      *)
(***************************************************************************)
InitHealth == Init /\ variant = "completo"

NextHealth ==
    \/ StartScheduler
    \/ \E f \in {"commands", "status"} : ExtDelete(f)
    \/ \E w \in BOOLEAN, ok \in BOOLEAN : HealthCheck(w, ok)
    \/ \E cap \in CaptureResults, w \in BOOLEAN, ok \in BOOLEAN :
            ManualSession(cap, w, ok)
    \/ \E a \in FewAnswers("completo") : OracleChange(a)

SpecHealth == InitHealth /\ [][NextHealth]_vars

(***************************************************************************)
(* Two threads of the Claude variant saving a post-trade lesson            *)
(***************************************************************************)
InitSave == Init /\ variant = "claude"

NextSave ==
    \/ \E w \in Writers : SaveBegin(w)
    \/ \E w \in Writers, ok \in BOOLEAN : SaveOpen(w, ok)
    \/ \E w \in Writers, ok \in BOOLEAN, clean \in BOOLEAN : SaveWrite(w, ok, clean)
    \/ \E w \in Writers, ok \in BOOLEAN : SaveReplace(w, ok)
    \/ SaveCrash

SpecSave == InitSave /\ [][NextSave]_vars

(***************************************************************************)
(* send_command_to_mt5 called with any argument                            *)
(***************************************************************************)
SendArgs == Commands \cup {"", "0", "5", "LONG"}

InitSend == Init

\* send_command_to_mt5(command) called on its own; lastWrite keeps the last
\* send that returned True
SendCommand(command, io) ==
    /\ LET r == send_command(cmdFile, command, io) IN
       /\ cmdFile' = r.file
       /\ lastWrite' = IF r.ret THEN Written("send", command, FALSE, TRUE)
                       ELSE lastWrite
       /\ lastOp' = Call("send", IF r.ret THEN "true" ELSE "false", NoId, 0,
                         <<command>>, 0, io = "none")
    /\ UNCHANGED <<polling, saving, storeVars, today, statusFile, orchVars, obs, assigned, tampered>>

NextSend == \E command \in SendArgs, io \in SendFailures : SendCommand(command, io)

SpecSend == InitSend /\ [][NextSend]_vars

(***************************************************************************)
(* The status reader on arbitrary file contents                            *)
(***************************************************************************)
StatusAlphabet == {"|", " ", "A", "e-acute", "0xA0"}

StatusContents == UNION {[1..n -> StatusAlphabet] : n \in 0..MaxLen}

\* A constructed system whose status file the terminal has overwritten with
\* any content
InitChannel ==
    /\ memFile = SavedForm(initial_data, FirstDay)
    /\ backups = <<SavedForm(initial_data, FirstDay)>>
    /\ today = FirstDay
    /\ variant \in Variants
    /\ cmdFile = File(<<>>)
    /\ statusFile \in {File(c) : c \in StatusContents} \cup {NoFile}
    /\ current_trade = None
    /\ waiting_for_setup = FALSE
    /\ shutdown_requested = FALSE
    /\ is_running = FALSE
    /\ monitors = 0
    /\ inHours = TRUE
    /\ pc = "constructed"
    /\ oracle = Answer(NoResponse, <<>>)
    /\ lastOp = Call("construct", "ok", NoId, 0, <<>>, 0, TRUE)
    /\ lastWrite = NoWrite
    /\ obs = Observed("", FALSE)
    /\ assigned = <<>>
    /\ tampered = FALSE
    /\ saving = NoSaving
    /\ polling = <<>>

\* read_mt5_status() called on its own
ReadStatus ==
    /\ lastOp.op # "read_status"
    /\ lastOp' = Call("read_status", read_mt5_status(variant, statusFile).status,
                      NoId, 0, status_field(statusFile), 0, TRUE)
    /\ UNCHANGED <<polling, saving, storeVars, today, chanVars, orchVars, histVars>>

NextChannel == ReadStatus

SpecChannel == InitChannel /\ [][NextChannel]_vars

(***************************************************************************)
(* The sessions on arbitrary answers of the decision source                *)
(***************************************************************************)
Decisions == {Str("1"), Str("2"), Str("3"), Str("4"), Str("5"), Num(2)}

Confidences ==
    {Conf("num", t) : t \in {-5, 0, 9, 10, 70, 100, 109, 110}}
        \cup {Conf("numstr", 70), Conf("numstr", 75), Conf("numstr", 110),
              Conf("text", 0), Conf("null", 0)}

RequiredFields == {"decision", "reasoning", "confidence"}

\* the API call raises, or answers text that is no JSON, JSON that is no
\* object, an object that lacks a field, or an object with all the fields
Responses ==
    {ApiError,
     Response("not_json", "null", {}, Str(""), Conf("null", 0)),
     Response("json", "list", {}, Str(""), Conf("null", 0)),
     NoResponse}
        \cup {Response("json", "dict", RequiredFields \ {f}, Str("2"),
                       Conf("num", 70)) : f \in RequiredFields}
        \cup {Response("json", "dict", RequiredFields, d, c) :
                  d \in Decisions, c \in Confidences}

ConsoleEvents == {"1", "2", " 3 ", "x", "EOF", "INT"}

\* what the operator does at the three attempts of the prompt
Consoles == [1..MaxAttempts -> ConsoleEvents]

Answers(v) ==
    IF v = "claude" THEN {Answer(r, <<>>) : r \in Responses}
    ELSE {Answer(NoResponse, c) : c \in Consoles}

InitDecision ==
    /\ memFile = SavedForm(initial_data, FirstDay)
    /\ backups = <<SavedForm(initial_data, FirstDay)>>
    /\ today = FirstDay
    /\ variant \in Variants
    /\ cmdFile = File(<<>>)
    /\ statusFile = File(default_status(variant))
    /\ current_trade = None
    /\ waiting_for_setup = FALSE
    /\ shutdown_requested = FALSE
    /\ is_running = FALSE
    /\ monitors = 0
    /\ inHours = TRUE
    /\ pc = "constructed"
    /\ oracle \in Answers(variant)
    /\ lastOp = Call("construct", "ok", NoId, 0, <<>>, 0, TRUE)
    /\ lastWrite = NoWrite
    /\ obs = Observed("", FALSE)
    /\ assigned = <<>>
    /\ tampered = FALSE
    /\ saving = NoSaving
    /\ polling = <<>>

NextDecision ==
    \/ StartScheduler
    \/ \E cap \in CaptureResults, enc \in {{}, Timeframes}, ok \in BOOLEAN :
            ClaudeSession(cap, enc, ok)
    \/ \E cap \in CaptureResults, w \in BOOLEAN, ok \in BOOLEAN :
            ManualSession(cap, w, ok)

SpecDecision == InitDecision /\ [][NextDecision]_vars

(***************************************************************************)
(* Claims about the decision sources and the status reader                 *)
(***************************************************************************)
\* the numeric value of a confidence lies in [1, 10]
ConfidenceInRange(c) ==
    c.t \in {"num", "numstr"} /\ 10 <= c.tenths /\ c.tenths <= 100

\* the decision value is one of 1, 2, 3, 4
DecisionInRange(d) == d \in {Str("1"), Str("2"), Str("3"), Str("4")}

\* a missing, unparsable or incomplete answer of the API, or one with a
\* decision outside {1,2,3,4} or a confidence outside [1,10]
MalformedResponse(r) ==
    \/ r.kind # "json"
    \/ r.shape # "dict"
    \/ ~(RequiredFields \subseteq r.has)
    \/ ~DecisionInRange(r.decision)
    \/ ~ConfidenceInRange(r.confidence)

ValidInput(e) == e \in {"1", "2", "3", "4", " 3 "}

\* the prompt is interrupted before a valid input, or gets three invalid ones
PromptGivesUp(console) ==
    \/ \E i \in 1..Len(console) :
           console[i] = "INT" /\ \A j \in 1..(i - 1) : ~ValidInput(console[j])
    \/ Len(console) >= MaxAttempts /\
           \A i \in 1..MaxAttempts : ~ValidInput(console[i])

MalformedAnswer ==
    IF variant = "claude" THEN MalformedResponse(oracle.response)
    ELSE PromptGivesUp(oracle.console)

\* C1: a session whose decision is missing, unparsable, incomplete, has a
\* decision outside {1,2,3,4} or a confidence outside [1,10], or whose prompt
\* got three invalid inputs or was interrupted, dispatches WAIT ("1").
C1_MalformedDecisionDispatchesWait ==
    (lastOp.op = "session" /\ lastOp.ret = "sent" /\ MalformedAnswer)
        => lastOp.out = <<"1">>

PollOps == {"monitor_tick", "monitor_thread"}

\* the lesson of the store that has the id the last operation reports
ReportedLesson ==
    LET ls == memFile.lessons IN
    ls[CHOOSE i \in 1..Len(ls) : ls[i].id = lastOp.id]

LessonReported ==
    /\ lastOp.out = <<"ok">>
    /\ memFile.kind = "store"
    /\ \E i \in 1..Len(memFile.lessons) : memFile.lessons[i].id = lastOp.id

C3_CycleLessonTags ==
    (/\ lastOp.op \in PollOps /\ lastOp.ret = "TP_HIT"
     /\ obs = Observed("2", TRUE)
     /\ lastOp.out = <<"ok">>)
        => /\ LessonReported
           /\ assigned # <<>> /\ lastOp.id = FormatId(assigned[Len(assigned)])
           /\ ReportedLesson.tags = <<"long", "win", "post_trade">>

\* C4: for a tracked LONG trade the lesson's pip result is "+50.0 pips" for
\* the TP_HIT line and "-50.0 pips" for the SL_HIT line.
C4_PipResultSigned ==
    (lastOp.op \in PollOps /\ LessonReported /\ obs.cmd = "2")
        => /\ statusFile = File(LongPrices("TP_HIT"))
                => ReportedLesson.result = "+50.0 pips"
           /\ statusFile = File(LongPrices("SL_HIT"))
                => ReportedLesson.result = "-50.0 pips"

\* C5: a send that returns true leaves the command file holding exactly the
\* one character of the command.
C5_SendWritesOneCharacter ==
    (lastOp.op \in {"session", "shutdown"} /\ lastOp.ret = "sent")
        => /\ Len(lastOp.out) = 1
           /\ lastOp.out[1] \in Commands
           /\ cmdFile = File(lastOp.out)

\* a session has sent LONG and the command file holds exactly "2"
C5_Witness ==
    /\ lastOp.op = "session" /\ lastOp.ret = "sent"
    /\ lastOp.out = <<"2">>
    /\ cmdFile.content = <<"2">>
    /\ obs.cmd = "2"
    /\ current_trade = "LONG"
    /\ monitors = 0

\* C11: a health check that runs while the command file is missing detects
\* it and, its file writes succeeding, leaves the command file existing and
\* empty and the status file existing, seeded with the WAITING record when
\* it was missing too and untouched otherwise.
C11_HealthCheckRecreatesFiles ==
    [][ (lastOp'.op = "health" /\ ~cmdFile.exists) =>
            /\ lastOp'.ret \in {"repaired", "repair_failed"}
            /\ lastOp'.ret = "repaired" =>
                  /\ cmdFile' = File(<<>>)
                  /\ statusFile' = IF statusFile.exists THEN statusFile
                                    ELSE File(default_status(variant)) ]_vars

\* a health check has repaired a deleted command file and status file
C11_Witness ==
    /\ lastOp.op = "health" /\ lastOp.ret = "repaired"
    /\ lastOp.out = <<"commands", "status">>
    /\ cmdFile = File(<<>>)
    /\ statusFile = File(default_status("completo"))

\* the content left when leading and trailing white space is removed
Trimmed(c) ==
    LET solid == {i \in 1..Len(c) : c[i] \notin {" ", "0xA0"}} IN
    IF solid = {} THEN <<>>
    ELSE SubSeq(c, CHOOSE i \in solid : \A j \in solid : i <= j,
                   CHOOSE i \in solid : \A j \in solid : j <= i)

AllAscii(c) == \A i \in 1..Len(c) : c[i] \in {"|", " ", "A"}

\* number of '|'-delimited fields of a content
FieldCount(c) == Cardinality({i \in 1..Len(c) : c[i] = "|"}) + 1

ShortStatus ==
    /\ lastOp.op = "read_status"
    /\ statusFile.exists
    /\ FieldCount(statusFile.content) < MinFields

\* C6: reading a status file of fewer than 6 fields, empty, blank and
\* non-ASCII content included, gives PARSE_ERROR and never raises.
C6_ShortStatusIsParseError == ShortStatus => lastOp.ret = "PARSE_ERROR"

\* C6 (amended): reading a status file of fewer than 6 fields never raises;
\* it gives PARSE_ERROR when the content without its surrounding white space
\* is non-empty and all ASCII, and UNREADABLE otherwise.
C6_ShortStatusIsSentinel ==
    ShortStatus =>
        LET text == Trimmed(statusFile.content) IN
        IF text # <<>> /\ AllAscii(text) THEN lastOp.ret = "PARSE_ERROR"
        ELSE lastOp.ret = "UNREADABLE"

\* a short ASCII line and a blank file have both been read
C6_Witness ==
    /\ ShortStatus
    /\ lastOp.ret = "PARSE_ERROR"
    /\ statusFile.content = <<" ", "A", "|", "A", "0xA0">>

(***************************************************************************)
(* Claims about the lesson store                                           *)
(***************************************************************************)
StrictlyIncreasing(seq) == \A i \in 1..(Len(seq) - 1) : seq[i] < seq[i + 1]

UniqueIds(lessons) ==
    \A i, j \in 1..Len(lessons) : lessons[i].id = lessons[j].id => i = j

\* what a reader gets from the store when the disk accepts writes
StoreView(file, bks, now) ==
    LET l == load_memory(file, bks, now, TRUE) IN
    [lessons |-> l.data.lessons, last |-> l.data.last_lesson_id]

\* C7: add_lesson returning id X, followed at once by
\* get_recent_lessons(limit=1, min_relevance=relevance), returns exactly the
\* lesson with id X.
C7_RoundTrip ==
    [][(/\ lastOp.op = "add" /\ lastOp.ret = "ok"
        /\ lastOp'.op = "recent" /\ lastOp'.limit = 1
        /\ lastOp'.rel = lastOp.rel)
       => (lastOp'.ret = "ok" /\ lastOp'.out = <<lastOp.id>>)]_vars

IdsInvariant ==
    /\ StrictlyIncreasing(assigned)
    /\ \A i \in 1..Len(assigned) : assigned[i] > SeedCount
    /\ memFile.kind = "store" =>
          /\ UniqueIds(memFile.lessons)
          /\ memFile.last_lesson_id = SeedCount + Len(assigned)

C9_UpdateMissingId ==
    [][(/\ lastOp'.op = "update"
        /\ lastOp'.ret \notin {"IOError", "AttributeError"}
        /\ lastOp'.id \notin IdsOf(StoreView(memFile, backups, today).lessons))
       => (/\ lastOp'.ret = "false"
           /\ StoreView(memFile', backups', today') = StoreView(memFile, backups, today)
           /\ memFile.kind = "store" => memFile' = memFile)]_vars

C9_Witness ==
    /\ lastOp.op = "update" /\ lastOp.ret = "false"
    /\ memFile.kind = "store"
    /\ lastOp.id \notin IdsOf(memFile.lessons)
    /\ Len(memFile.lessons) > SeedCount

\* C10: a load that finds the primary file structurally invalid (not JSON,
\* or JSON that is not the expected record) restores the content of the
\* newest backup if one exists, else yields an empty valid store, and does
\* not raise.
C10_LoadRestoresNewestBackup ==
    [][(/\ lastOp'.op = "load" /\ lastOp'.io
        /\ memFile.kind \in {"garbage", "nondict"})
       => IF backups # <<>>
          THEN /\ lastOp'.ret = "store"
               /\ memFile'.kind = "store"
               /\ memFile'.lessons = backups[Len(backups)].lessons
               /\ memFile'.last_lesson_id = backups[Len(backups)].last_lesson_id
               /\ lastOp'.id = FormatId(backups[Len(backups)].last_lesson_id)
          ELSE /\ lastOp'.ret = "store"
               /\ lastOp'.out = <<>>]_vars

\* C12: add_lesson with a required text field empty or a relevance outside
\* [1,5] raises the validation error and leaves the primary file, the
\* backups and the ids assigned so far exactly as they were.
C12_InvalidLessonRejected ==
    [][ (/\ lastOp'.op = "add"
         /\ lastOp'.out = <<"empty">> \/ lastOp'.rel \notin 1..5)
        => (/\ lastOp'.ret = "ValueError"
            /\ lastOp'.id = NoId
            /\ memFile' = memFile
            /\ backups' = backups
            /\ assigned' = assigned) ]_vars

\* an add with an empty field was rejected on a store that holds an added
\* lesson, whatever the state of the disk
C12_Witness ==
    /\ lastOp.op = "add" /\ lastOp.ret = "ValueError"
    /\ lastOp.out = <<"empty">> /\ lastOp.rel = 4
    /\ memFile.kind = "store" /\ Len(memFile.lessons) > SeedCount


\* C13: at every step of a store write, a crash included, the primary file
\* holds either its previous content or the complete document of a caller
\* that is saving; it is never a partially written file.
C13_PrimaryNeverPartial ==
    [][ lastOp'.op = "save_memory" =>
            \/ memFile' = memFile
            \/ \E w \in Writers :
                  /\ saving.pc[w] # "idle"
                  /\ memFile' = SavedForm(saving.data[w], today) ]_vars


\* C14: when the disk refuses a write that add_lesson, update_lesson or
\* delete_lesson attempts (the temporary file cannot be written or cannot be
\* renamed), the call raises the I/O error to its caller and the primary
\* file and the backups are what they were before the call.
WriteAttempted ==
    \/ /\ lastOp'.op = "add"
       /\ lastOp'.out = <<>>
       /\ lastOp'.rel \in 1..5
    \/ /\ lastOp'.op \in {"update", "delete"}
       /\ memFile.kind = "store"
       /\ lastOp'.id \in IdsOf(memFile.lessons)

C14_FailedWriteKeepsPrimary ==
    [][ (WriteAttempted /\ ~lastOp'.io)
            => (/\ lastOp'.ret = "IOError"
                /\ memFile' = memFile
                /\ backups' = backups) ]_vars

C14_Witness ==
    /\ lastOp.op = "delete"
    /\ lastOp.ret = "IOError"
    /\ ~lastOp.io
    /\ memFile.kind = "store"
    /\ lastOp.id \in IdsOf(memFile.lessons)
    /\ Len(assigned) > 0


\* C15: whatever the primary file and the backups hold (nothing, text that
\* does not parse, JSON of an unexpected shape), a read operation returns
\* without raising as long as the disk accepts writes.
C15_ReadNeverRaises ==
    (lastOp.op = "recent" /\ lastOp.io) => lastOp.ret = "ok"


\* C16: after any sequence of send_command_to_mt5 calls the command file
\* holds at most one command character, and a character it holds is the
\* command of the most recent call that returned True.
C16_OnePendingCommand ==
    /\ Len(cmdFile.content) <= 1
    /\ cmdFile.content # <<>> =>
          /\ lastWrite.by = "send"
          /\ lastWrite.cmd \in Commands
          /\ cmdFile.content = <<lastWrite.cmd>>

\* SHORT was sent, then a send of LONG failed: the file still holds "3"
C16_Witness ==
    /\ lastOp.op = "send" /\ lastOp.out = <<"2">> /\ lastOp.ret = "false"
    /\ lastWrite.cmd = "3"
    /\ cmdFile.content = <<"3">>

\* C17: send_command_to_mt5 returns True or False and never raises; it
\* returns False when the I/O fails, and for an argument outside
\* {1, 2, 3, 4} it returns False and leaves the command file as it was.
C17_SendNeverRaises ==
    [][ lastOp'.op = "send" =>
          /\ lastOp'.ret \in {"true", "false"}
          /\ ~lastOp'.io => lastOp'.ret = "false"
          /\ lastOp'.out[1] \notin Commands =>
                lastOp'.ret = "false" /\ cmdFile' = cmdFile ]_vars

\* "5" was refused while the file held a pending LONG
C17_Witness ==
    /\ lastOp.op = "send" /\ lastOp.out = <<"5">> /\ lastOp.ret = "false"
    /\ cmdFile.content = <<"2">>


\* the characters of a content before its first '|'
FirstField(c) ==
    LET bars == {i \in 1..Len(c) : c[i] = "|"} IN
    IF bars = {} THEN c
    ELSE SubSeq(c, 1, (CHOOSE i \in bars : \A j \in bars : i <= j) - 1)

\* C18: read_mt5_status never raises; it reports FILE_NOT_FOUND when the
\* file is absent, UNREADABLE when the content has a character outside
\* ASCII under every decoding, PARSE_ERROR when there are fewer than 6
\* fields, and for every other content a record whose status is the first
\* field.
C18_StatusReportsFailure ==
    lastOp.op = "read_status" =>
        LET text == Trimmed(statusFile.content) IN
        IF ~statusFile.exists THEN lastOp.ret = "FILE_NOT_FOUND"
        ELSE IF ~AllAscii(text) THEN lastOp.ret = "UNREADABLE"
        ELSE IF FieldCount(text) < MinFields THEN lastOp.ret = "PARSE_ERROR"
        ELSE lastOp.out = FirstField(text)

\* C18 (amended): as above, with an empty or blank file reported as
\* UNREADABLE, and the fields taken from the content without its
\* surrounding white space.
C18_StatusReportsFailureOrField ==
    lastOp.op = "read_status" =>
        LET text == Trimmed(statusFile.content) IN
        IF ~statusFile.exists THEN lastOp.ret = "FILE_NOT_FOUND"
        ELSE IF text = <<>> \/ ~AllAscii(text) THEN lastOp.ret = "UNREADABLE"
        ELSE IF FieldCount(text) < MinFields THEN lastOp.ret = "PARSE_ERROR"
        ELSE /\ lastOp.out = FirstField(text)
             /\ lastOp.ret = FieldText(lastOp.out)

\* a line of six fields whose first field is "A" has been read
C18_Witness ==
    /\ lastOp.op = "read_status"
    /\ statusFile.content = <<"A", "|", "|", "|", "|", "|">>
    /\ lastOp.ret = "A"
    /\ lastOp.out = <<"A">>


\* C19: a session that dispatched WAIT or CLOSE starts no monitoring, CLOSE
\* clears current_trade and WAIT leaves it as it was; a session that
\* dispatched LONG or SHORT leaves current_trade equal to that direction,
\* which is what the monitoring tick polls on, and in the Claude variant
\* has started the monitor thread.
C19_DispatchSetsTrade ==
    [][ (lastOp'.op = "session" /\ lastOp'.ret = "sent") =>
            LET decision == lastOp'.out[1] IN
            /\ decision \in Commands
            /\ decision = "1" => current_trade' = current_trade /\ monitors' = monitors
            /\ decision = "4" => current_trade' = None /\ monitors' = monitors
            /\ decision \in {"2", "3"} =>
                  /\ current_trade' = command_names(decision)
                  /\ obs' = Observed(decision, FALSE)
                  /\ variant = "claude" => monitors' = monitors + 1 ]_vars

\* WAIT was dispatched while a LONG trade is tracked
C19_Witness ==
    /\ lastOp.op = "session" /\ lastOp.ret = "sent"
    /\ lastOp.out = <<"1">>
    /\ current_trade = "LONG"
    /\ cmdFile.content = <<"1">>


\* C20: a poll that observed a terminal status for the tracked trade leaves
\* current_trade cleared, whether or not the lesson could be written, and a
\* lesson it wrote carries the direction of the tracked trade and a win or
\* loss marker among its tags.
HasTag(lesson, tag) == \E i \in 1..Len(lesson.tags) : lesson.tags[i] = tag

C20_TerminalStatusLesson ==
    (/\ lastOp.op \in PollOps
     /\ lastOp.ret \in TerminalStatuses
     /\ obs.cmd \in {"2", "3"})
        => /\ current_trade = None
           /\ lastOp.out = <<"ok">> =>
                 /\ LessonReported
                 /\ HasTag(ReportedLesson, Lower(command_names(obs.cmd)))
                 /\ HasTag(ReportedLesson, "win") \/ HasTag(ReportedLesson, "loss")


C22_RestartResumesMonitoring ==
    (/\ lastOp.op = "restart" /\ lastOp.ret = "ok"
     /\ lastOp.out \in {<<"LONG">>, <<"SHORT">>})
        => current_trade = lastOp.out[1]


\* C23: a monitor poll that read a terminal status before a LONG or SHORT
\* dispatch does not clear the current_trade the dispatch set afterwards.
C23_NoLostUpdate ==
    [][ (/\ lastOp'.op = "thread_reflect"
         /\ lastWrite # polling[1].seen
         /\ lastWrite.by = "session"
         /\ lastWrite.cmd \in {"2", "3"}
         /\ current_trade = command_names(lastWrite.cmd))
            => current_trade' = current_trade ]_vars


\* C24: outside the trading-hours window no monitoring path polls: the
\* status is not read, current_trade is not cleared, no lesson is written.
C24_MonitoringGatedByHours ==
    [][ (~inHours /\ lastOp'.op \in PollOps) =>
            /\ lastOp'.ret \in {"skipped", "exit"}
            /\ current_trade' = current_trade
            /\ assigned' = assigned
            /\ memFile' = memFile ]_vars


\* C25: no step of a monitoring tick waits for human input: the scheduler
\* thread running a tick is never inside input().
C25_TickNeverAwaitsHuman == pc # "awaiting_input"


\* C26: a health check, its auto-repair included, leaves current_trade and
\* waiting_for_setup as they were and moves neither the scheduler nor the
\* monitoring of a trade.
C26_HealthCheckKeepsSession ==
    [][ lastOp'.op = "health" =>
            /\ current_trade' = current_trade
            /\ waiting_for_setup' = waiting_for_setup
            /\ pc' = pc /\ is_running' = is_running
            /\ shutdown_requested' = shutdown_requested
            /\ monitors' = monitors
            /\ obs' = obs /\ assigned' = assigned ]_vars

\* a health check has repaired the channel files while LONG is tracked
C26_Witness ==
    /\ lastOp.op = "health" /\ lastOp.ret = "repaired"
    /\ lastOp.out # <<>>
    /\ current_trade = "LONG"


\* C27: the orchestrator changes the status file only to seed it when the
\* file is absent; it never replaces content the terminal wrote.
C27_StatusSeededOnlyWhenAbsent ==
    [][ (lastOp'.op = "health" /\ statusFile' # statusFile)
            => ~statusFile.exists ]_vars


\* C28: after any sequence of adds, updates and deletes every lesson of the
\* store has a relevance in 1..5 and non-empty pair, type, context, rule and
\* result.
C28_LessonsWellFormed ==
    memFile.kind = "store" =>
        \A i \in 1..Len(memFile.lessons) :
            /\ memFile.lessons[i].relevance \in 1..5
            /\ "" \notin {memFile.lessons[i].pair, memFile.lessons[i].type,
                          memFile.lessons[i].context, memFile.lessons[i].rule,
                          memFile.lessons[i].result}


\* C29: whenever the primary file holds a store, its metadata lesson count
\* equals the number of lessons in its lessons sequence, and so does every
\* snapshot a restore can bring back.
C29_CountMatchesLessons ==
    /\ memFile.kind = "store" => memFile.total_lessons = Len(memFile.lessons)
    /\ \A b \in 1..Len(backups) :
          backups[b].kind = "store" =>
              backups[b].total_lessons = Len(backups[b].lessons)

\* an add that went through a restore or a re-seed and changed the count
C29_Witness ==
    /\ lastOp.op = "add" /\ lastOp.ret = "ok" /\ tampered
    /\ memFile.kind = "store"
    /\ Len(memFile.lessons) = SeedCount + 1
    /\ memFile.total_lessons = SeedCount + 1


RECURSIVE Reversed(_)
Reversed(q) == IF q = <<>> THEN <<>> ELSE Append(Reversed(Tail(q)), q[1])

\* the lessons of the stated result: the matching lessons by date descending,
\* of equal date the one inserted later first, cut at limit
StatedRecent(lessons, limit, min_relevance, lesson_type, tags) ==
    LET matches(l) ==
            /\ l.relevance >= min_relevance
            /\ lesson_type # "" => l.type = lesson_type
            /\ tags # <<>> =>
                  \E t \in 1..Len(tags), u \in 1..Len(l.tags) : tags[t] = l.tags[u]
        matching == FilterSeq(lessons, [i \in 1..Len(lessons) |-> matches(lessons[i])])
    IN Take(SortByDateDesc(Reversed(matching)), limit)

\* C30: get_recent_lessons(limit, minRelevance, type, tags) returns exactly
\* the matching lessons, by date descending with lessons of equal date most
\* recent insertion first, truncated to limit.
C30_RecentLessonsAsStated ==
    [][ (lastOp'.op = "query" /\ lastOp'.ret = "ok") =>
            LET want == StatedRecent(memFile'.lessons, lastOp'.limit, lastOp'.rel,
                                     lastOp'.type, lastOp'.tags)
            IN lastOp'.out = [i \in 1..Len(want) |-> want[i].id] ]_vars


\* C31: update_lesson on an existing id changes, in the store it loaded, only
\* the whitelisted fields that were passed and the update timestamp of that
\* lesson: its id, date, pair and type, every other lesson, the order of the
\* lessons and last_lesson_id stay, whatever keys the caller passes.
C31_UpdateFrame ==
    [][ (lastOp'.op = "update" /\ lastOp'.ret = "true") =>
        \A id \in {lastOp'.id}, upd \in Updates, ok \in BOOLEAN :
          UpdateLesson(id, upd, ok) =>
            LET loaded == load_memory(memFile, backups, today, ok).data
                before == loaded.lessons
                after == memFile'.lessons
                i == FirstIndexOf(before, id)
            IN /\ memFile'.kind = "store"
               /\ memFile'.last_lesson_id = loaded.last_lesson_id
               /\ Len(after) = Len(before)
               /\ i \in 1..Len(before)
               /\ \A j \in 1..Len(before) : j # i => after[j] = before[j]
               /\ after[i] =
                    [before[i] EXCEPT
                        !.updated = after[i].updated,
                        !.relevance = IF "relevance" \in upd.has
                                      THEN after[i].relevance ELSE @,
                        !.context = IF "context" \in upd.has
                                    THEN after[i].context ELSE @] ]_vars

\* an update that passed a key outside the whitelist and was applied
C31_Witness ==
    /\ lastOp.op = "update" /\ lastOp.ret = "true"
    /\ memFile.kind = "store"
    /\ \E i \in 1..Len(memFile.lessons) :
          /\ memFile.lessons[i].id = lastOp.id
          /\ memFile.lessons[i].updated # 0
          /\ memFile.lessons[i].relevance = 4


\* C32: a session that starts while a channel file is missing ends at the
\* pre-session checks: no capture, no decision, no command sent.
C32_SessionStopsAtFailedChecks ==
    [][ (lastOp'.op = "session" /\ ~check_mt5_files(cmdFile, statusFile, TRUE))
            => /\ lastOp'.ret = "precheck_failed"
               /\ cmdFile' = cmdFile
               /\ current_trade' = current_trade ]_vars


\* C33: a session whose capture came back empty, or whose decision source
\* gave nothing or an invalid decision, leaves the command file,
\* current_trade, waiting_for_setup and the lesson store as they were.
C33_FailedCollaboratorNoEffect ==
    [][ (/\ lastOp'.op = "session"
         /\ lastOp'.ret = "no_screenshots" \/ MalformedAnswer)
            => /\ cmdFile' = cmdFile
               /\ current_trade' = current_trade
               /\ waiting_for_setup' = waiting_for_setup
               /\ memFile' = memFile ]_vars


\* C34: a monitoring poll that reads anything but TP_HIT, SL_HIT, CLOSED or
\* MANUAL_CLOSE changes no state: current_trade and the lesson store stay and
\* the poller goes on polling.
C34_NonTerminalPollNoEffect ==
    [][ (/\ lastOp'.op \in PollOps
         /\ lastOp'.ret \notin {"TP_HIT", "SL_HIT", "CLOSED", "MANUAL_CLOSE",
                                "skipped", "exit"})
            => /\ current_trade' = current_trade
               /\ current_trade # None
               /\ memFile' = memFile
               /\ assigned' = assigned
               /\ monitors' = monitors
               /\ pc' = pc ]_vars

\* a poll of an open trade that read a sentinel
C34_Witness ==
    /\ lastOp.op \in PollOps
    /\ lastOp.ret \in {"FILE_NOT_FOUND", "PARSE_ERROR", "UNREADABLE"}
    /\ current_trade # None


\* C35: at most one poller acts on a terminal status, so a concluded trade
\* gets one lesson; the ids given to post-trade lessons are all different and
\* every lesson that got an id is in the store.
C35_OneLessonPerTrade ==
    /\ Len(polling) <= 1
    /\ \A i, j \in 1..Len(assigned) : i # j => assigned[i] # assigned[j]
    /\ memFile.kind = "store" => Len(memFile.lessons) = SeedCount + Len(assigned)


\* C36: a poll that comes right after a LONG or SHORT dispatch, before the
\* terminal has written anything new, does not conclude the trade: a terminal
\* status already in the status file is not the outcome of the new trade.
C36_StaleStatusNotTaken ==
    [][ (/\ lastOp.op = "session" /\ lastOp.ret = "sent"
         /\ lastOp.out \in {<<"2">>, <<"3">>}
         /\ lastOp'.op \in PollOps)
            => /\ lastOp'.ret \notin TerminalStatuses
               /\ current_trade' = current_trade
               /\ assigned' = assigned ]_vars


\* C37: a health check with its auto-repair leaves the content of a command
\* file that exists as it is; only a dispatch changes it.
C37_RepairKeepsPendingCommand ==
    [][ (lastOp'.op = "health" /\ cmdFile.exists) => cmdFile' = cmdFile ]_vars


\* C38: a session writes a LONG or SHORT command only when no trade is
\* tracked.
C38_DirectionalOnlyWhenFlat ==
    [][ (/\ lastOp'.op = "session" /\ lastOp'.ret = "sent"
         /\ lastOp'.out \in {<<"2">>, <<"3">>})
            => current_trade = None ]_vars


\* C39: every backup snapshot is a structurally valid store; a construction
\* never snapshots a corrupt primary file.
C39_BackupsAreValidStores ==
    \A b \in 1..Len(backups) : backups[b].kind = "store"


\* C40: current_trade changes only to LONG or SHORT in the session whose
\* send of that command returned true, and to none in a session whose CLOSE
\* was sent or in a poll that read a terminal status; a session whose send
\* returned false keeps it.
C40_TradeChangesOnlyByDispatchOrPoll ==
    [][ /\ current_trade' # current_trade =>
             \/ /\ current_trade' \in {"LONG", "SHORT"}
                /\ lastOp'.op = "session" /\ lastOp'.ret = "sent"
                /\ lastOp'.out \in {<<"2">>, <<"3">>}
                /\ command_names(lastOp'.out[1]) = current_trade'
             \/ /\ current_trade' = None
                /\ \/ /\ lastOp'.op = "session" /\ lastOp'.ret = "sent"
                      /\ lastOp'.out = <<"4">>
                   \/ /\ lastOp'.op \in PollOps
                      /\ lastOp'.ret \in {"TP_HIT", "SL_HIT", "CLOSED", "MANUAL_CLOSE"}
        /\ (lastOp'.op = "session" /\ lastOp'.ret = "send_failed")
              => current_trade' = current_trade ]_vars

\* a poll has concluded a dispatched trade
C40_Witness ==
    /\ lastOp.op \in PollOps
    /\ lastOp.ret \in {"TP_HIT", "SL_HIT"}
    /\ obs.cmd \in {"2", "3"}
    /\ current_trade = None

====
